---- MODULE Spec2Model ----
(***************************************************************************)
(* Model of the UDS diagnostic service (vci_uds_service.cpp) and of the    *)
(* ISO-TP transaction state machine (vci_uds_transaction.cpp).             *)
(*                                                                         *)
(* SpecSvc : the Service facade: caller threads, the physical worker       *)
(*           thread, the keep-alive thread, the two locks and the queues.  *)
(*           Transaction::execute() is abstracted to "send some frames,    *)
(*           observe the abort flag, end with a result code".              *)
(* SpecTx  : one Transaction::execute() step by step, with a clock, the    *)
(*           frame provider and a concurrent stopExecution().              *)
(***************************************************************************)
EXTENDS Integers, Sequences, FiniteSets, TLC

\* ------------------------------------------------------------------ bounds
\* Requests handed to request_sync / request_async in one behaviour.
MaxCalls == 3
\* Frames one (abstract) transaction sends on the bus in SpecSvc.
MaxFrames == 1
\* Capacity constant of the physical request queue (declared in
\* vci_uds_service.h; scaled down).
REQUEST_QUEUE_SIZE == 1

\* ----------------------------------------------------------------- threads
Callers == {"c1", "c2"}
Worker == "w"
KeepAlive == "ka"
FuncWorker == "fw"
Threads == Callers \cup {Worker, KeepAlive, FuncWorker}
ExecThreads == Callers \cup {Worker}
NoThread == "none"
\* A Transaction object is named after the thread that built it; NoTx is the
\* null m_transaction.
NoTx == "null"

\* Result codes (VCI_UDS_RESULT_*) the service model distinguishes.
RunCodes == {"Ok", "TimeoutA"}
\* tester_present_interval_ms of the session context: 0 disables keep-alive.
TpIntervals == {0, 2000}

VARIABLES
    pc,                     \* position of every thread
    req,                    \* per thread: payload of the request being handled
    res,                    \* per thread: result of its executeTransaction
    execTx,                 \* per thread: object on which execute() was called
    sentFrames,             \* per thread: frames sent by the running execute()
    dequeued,               \* worker local: result of wait_dequeue_timed
    m_transaction_mutex,    \* owner of m_transaction_mutex, or NoThread
    m_transaction,          \* m_transaction: NoTx or a Transaction
    dangling,               \* threads running execute() on a destructed object
    m_abort_flag,           \* live Transaction objects whose m_abort_flag is set
    m_request_queue,
    m_response_queue,
    m_phys_thread_active,
    m_service_is_running,
    m_keep_alive_active,
    tester_present_interval_ms,
    kaDue,                  \* now - m_last_tx_time_ms >= tester_present_interval_ms
    nextId,                 \* next fresh request payload
    ub,                     \* "none", or the undefined behaviour that ended the process
    \* --- one Transaction object and its execute() (SpecTx)
    m_context,              \* tp_config of the session context snapshot
    m_request_payload,
    m_state,
    m_result,
    m_nrc78_count,
    m_segmenter,
    m_fc_block_size_from_ecu,
    m_fc_frames_sent_in_block,
    m_fc_separation_time_from_ecu,
    m_reassembler,
    at,                     \* position of the thread inside execute()
    elapsed,                \* waitForFrame: getTickCount() - start_time
    timeout_ms,             \* waitForFrame: its argument
    chunk,                  \* timeout handed to the provider call in progress
    frame_opt,              \* what waitForFrame returned to the handler
    sent,                   \* frames handed to the sender, in order
    sinceArmed,             \* ms since the current wait was armed (capped)
    stopSeen,               \* what happened since stopExecution() (history)
    \* --- pointer locks and the functional pipeline
    unstampedSend,          \* a frame left after the last stamp of
                            \* m_last_tx_time_ms, less than one interval ago
    m_transaction_pointer_mutex,    \* owner, or NoThread
    m_functional_pointer_mutex,     \* owner, or NoThread
    m_functional_transaction,       \* NoTx or the FunctionalTransaction
    m_functional_request_queue,
    m_functional_response_queue,
    m_func_thread_active,
    funcResponses,          \* functional worker local: what execute() returned
    \* --- starting and stopping the threads
    m_phys_thread_mutex,    \* owner, or NoThread
    m_func_thread_mutex,    \* owner, or NoThread
    m_communicator,         \* "open", or "shutdown" after Communicator::shutdown()
    \* --- the security access sequence of one caller
    sa_pc,                  \* position inside securityAccess
    security_level,
    seed_response_payload,
    key,
    final_response,
    ret,                    \* the result code held by `ret`, then returned
    sa_log,                 \* requests and key calculations made, in order
    \* --- the session context of the Service
    svc_m_context,          \* Service::m_context
    \* --- the response queue and read_response
    response_producer,      \* the producer of each m_response_queue entry
    worker_thread,          \* the producer the worker enqueues as
    read_ret,               \* what the last read_response returned
    returned,               \* request ids of the results returned, in order
    \* --- the security configuration
    m_security_config,      \* Service::m_security_config
    temp_config,            \* temp_config of setSecurityConfig
    provider_config,        \* the configuration the SecurityProvider read
    \* --- one FunctionalTransaction and its execute()
    func_sent,              \* frames the running execute() handed to the sender
    func_heard,             \* single-frame replies the provider delivered (history)
    func_silence,           \* provider calls in a row that timed out
    \* --- the call of Transaction::stopExecution
    stopCalled              \* where execute() was when stopExecution was called (history)

thrVars == <<pc, req, res, execTx, sentFrames, dequeued>>
objVars == <<m_transaction, dangling, m_abort_flag>>
queueVars == <<m_request_queue, m_response_queue>>
flagVars == <<m_phys_thread_active, m_service_is_running, m_keep_alive_active,
              tester_present_interval_ms>>
clockVars == <<kaDue, unstampedSend>>
svcVars == <<thrVars, objVars, queueVars, flagVars, m_transaction_mutex,
             clockVars,
             nextId, ub>>

txVars == <<m_context, m_request_payload, m_state, m_result, m_nrc78_count,
            m_segmenter, m_fc_block_size_from_ecu, m_fc_frames_sent_in_block,
            m_fc_separation_time_from_ecu, m_reassembler, at, elapsed,
            timeout_ms, chunk, frame_opt, sent, sinceArmed, stopSeen>>

ptrVars == <<m_transaction_pointer_mutex, m_functional_pointer_mutex>>
funcVars == <<m_functional_transaction, m_functional_request_queue,
              m_functional_response_queue, m_func_thread_active,
              funcResponses>>
stopVars == <<m_phys_thread_mutex, m_func_thread_mutex, m_communicator>>
secVars == <<sa_pc, security_level, seed_response_payload, key,
             final_response, ret, sa_log>>
fifoVars == <<response_producer, worker_thread, read_ret, returned>>
secCfgVars == <<m_security_config, temp_config, provider_config>>
funcTxVars == <<func_sent, func_heard, func_silence>>
apiVars == <<secVars, svc_m_context, fifoVars, secCfgVars, funcTxVars,
            stopCalled>>

\* stopExecution has not been called.
NoStopCall == [called |-> FALSE, sent |-> 0, at |-> "new", seen |-> <<>>]
extVars == <<ptrVars, funcVars, stopVars, apiVars>>

vars == <<svcVars, txVars, extVars>>

NoRes == [code |-> "none", payload |-> 0]

\* The process is gone once a null pointer was dereferenced or a freed
\* object made it fault.
crashed == ub # "none"

\* No security access sequence has started.
InitSec ==
    /\ sa_pc = "sa_idle"
    /\ security_level = 0
    /\ seed_response_payload = <<>>
    /\ key = <<>>
    /\ final_response = <<>>
    /\ ret = "none"
    /\ sa_log = <<>>

InitCommon ==
    /\ pc = [t \in Threads |->
                IF t \in Callers THEN "idle"
                ELSE IF t = Worker THEN "w_none"
                ELSE IF t = FuncWorker THEN "f_none" ELSE "ka_none"]
    /\ req = [t \in ExecThreads |-> 0]
    /\ res = [t \in ExecThreads |-> NoRes]
    /\ execTx = [t \in ExecThreads |-> NoTx]
    /\ sentFrames = [t \in ExecThreads |-> 0]
    /\ dequeued = FALSE
    /\ m_transaction_mutex = NoThread
    /\ m_transaction = NoTx
    /\ dangling = {}
    /\ m_abort_flag = {}
    /\ m_request_queue = <<>>
    /\ m_response_queue = <<>>
    /\ m_phys_thread_active = FALSE
    /\ m_service_is_running = TRUE
    /\ m_keep_alive_active = FALSE
    /\ kaDue = FALSE
    /\ unstampedSend = FALSE
    /\ nextId = 1
    /\ ub = "none"
    /\ m_transaction_pointer_mutex = NoThread
    /\ m_functional_pointer_mutex = NoThread
    /\ m_functional_transaction = NoTx
    /\ m_functional_request_queue = <<>>
    /\ m_functional_response_queue = <<>>
    /\ m_func_thread_active = FALSE
    /\ funcResponses = <<>>
    /\ m_phys_thread_mutex = NoThread
    /\ m_func_thread_mutex = NoThread
    /\ m_communicator = "open"
    /\ InitSec
    /\ response_producer = <<>>
    /\ worker_thread = 0
    /\ read_ret = "none"
    /\ returned = <<>>
    /\ m_security_config = [algorithm |-> 0, parameters |-> 0]
    /\ temp_config = [algorithm |-> 0, parameters |-> 0]
    /\ provider_config = [algorithm |-> 0, parameters |-> 0]
    /\ func_sent = <<>>
    /\ func_heard = <<>>
    /\ func_silence = 0
    /\ stopCalled = NoStopCall

\* -------------------------------------------------------- executeTransaction
\* Service::updateLastTxTime: the last transmit time becomes "now".
updateLastTxTime ==
    /\ kaDue' = FALSE
    /\ unstampedSend' = FALSE

\* The threads inside execute() on object x, which is still alive.
RunningOn(x) ==
    {u \in ExecThreads : pc[u] = "ex_run" /\ execTx[u] = x /\ u \notin dangling}

\* The unique_ptr m_transaction lets go of the object it holds: the object is
\* destructed, whoever is running execute() on it.
ReleaseTransaction ==
    IF m_transaction = NoTx
    THEN UNCHANGED dangling
    ELSE dangling' = dangling \cup RunningOn(m_transaction)

\* Lines 393-404: stamp the transmit time, build the Transaction from the
\* payload and store it in m_transaction under m_transaction_pointer_mutex.
\* Assigning the unique_ptr destructs the object it held before.
ExCreate(t) ==
    /\ ~crashed
    /\ pc[t] = "ex_create"
    /\ updateLastTxTime
    /\ ReleaseTransaction
    /\ m_transaction' = t
    /\ m_abort_flag' = m_abort_flag \ {m_transaction, t}
    /\ pc' = [pc EXCEPT ![t] = "ex_lock"]
    /\ UNCHANGED <<txVars, extVars>>
    /\ UNCHANGED <<req, res, execTx, sentFrames, dequeued, queueVars, flagVars,
                   m_transaction_mutex, nextId, ub>>

\* A lock_guard that would not wait for the owner of the mutex.
TxMutexAcquire_NoWait(t) ==
    m_transaction_mutex' = t

\* std::lock_guard<std::mutex> tx_lock(m_transaction_mutex)
TxMutexAcquire(t) ==
    /\ m_transaction_mutex = NoThread
    /\ m_transaction_mutex' = t

\* Lines 408-410: take m_transaction_mutex, then call m_transaction->execute()
\* on whatever m_transaction holds now.  A null m_transaction is a null
\* pointer dereference.
ExLock(t) ==
    /\ ~crashed
    /\ pc[t] = "ex_lock"
    /\ TxMutexAcquire(t)
    /\ IF m_transaction = NoTx
       THEN /\ ub' = "null_deref"
            /\ UNCHANGED <<pc, execTx>>
       ELSE /\ execTx' = [execTx EXCEPT ![t] = m_transaction]
            /\ pc' = [pc EXCEPT ![t] = "ex_run"]
            /\ UNCHANGED ub
    /\ UNCHANGED <<txVars, extVars>>
    /\ UNCHANGED <<req, res, sentFrames, dequeued, objVars, queueVars, flagVars,
                   clockVars, nextId>>

\* execute() returns `code` (with the payload of the object it ran on); the
\* lock_guard scope ends (line 411).
ExFinish(t, code) ==
    /\ res' = [res EXCEPT ![t] =
                  [code |-> code,
                   payload |-> IF t \in dangling THEN 0 ELSE req[execTx[t]]]]
    /\ m_transaction_mutex' = NoThread
    /\ pc' = [pc EXCEPT ![t] = "ex_reset"]
    /\ execTx' = [execTx EXCEPT ![t] = NoTx]
    /\ sentFrames' = [sentFrames EXCEPT ![t] = 0]
    /\ dangling' = dangling \ {t}
    /\ UNCHANGED clockVars

\* The sender closure of line 397: updateLastTxTime(), then sendFrame().
ExSendFrame(t) ==
    /\ sentFrames[t] < MaxFrames
    /\ sentFrames' = [sentFrames EXCEPT ![t] = @ + 1]
    /\ updateLastTxTime
    /\ UNCHANGED <<res, m_transaction_mutex, pc, execTx, dangling>>

\* One step of Transaction::execute() as the service sees it: the abort flag
\* is read first (vci_uds_transaction.cpp line 46); if it is clear the
\* transaction sends a frame or ends with a result code.
ExStep(t, abortSeen) ==
    IF abortSeen
    THEN ExFinish(t, "Aborted")
    ELSE \/ ExSendFrame(t)
         \/ \E code \in RunCodes : ExFinish(t, code)

\* execute() runs under m_transaction_mutex.  When the object was destructed
\* by another thread in the meantime, every access is a use after free: the
\* process faults, or it goes on with whatever the freed memory holds.
ExRun(t) ==
    /\ ~crashed
    /\ pc[t] = "ex_run"
    /\ IF t \in dangling
       THEN \/ /\ ub' = "use_after_free"
               /\ UNCHANGED <<res, m_transaction_mutex, pc, execTx, sentFrames,
                              dangling, clockVars>>
            \/ /\ UNCHANGED ub
               /\ \E abortSeen \in BOOLEAN : ExStep(t, abortSeen)
       ELSE /\ ExStep(t, execTx[t] \in m_abort_flag)
            /\ UNCHANGED ub
    /\ UNCHANGED <<txVars, extVars>>
    /\ UNCHANGED <<req, dequeued, m_transaction, m_abort_flag, queueVars,
                   flagVars, nextId>>

\* Lines 414-419: m_transaction.reset() under m_transaction_pointer_mutex,
\* then return the result.  A caller thread is back in requestSync (lines
\* 213-217) and returns; the worker goes on at line 334.
ExReset(t) ==
    /\ ~crashed
    /\ pc[t] = "ex_reset"
    /\ ReleaseTransaction
    /\ m_transaction' = NoTx
    /\ m_abort_flag' = m_abort_flag \ {m_transaction}
    /\ IF t \in Callers
       THEN /\ pc' = [pc EXCEPT ![t] = "idle"]
            /\ req' = [req EXCEPT ![t] = 0]
            /\ res' = [res EXCEPT ![t] = NoRes]
       ELSE /\ pc' = [pc EXCEPT ![t] = "w_enq"]
            /\ UNCHANGED <<req, res>>
    /\ UNCHANGED <<txVars, extVars>>
    /\ UNCHANGED <<execTx, sentFrames, dequeued, queueVars, flagVars,
                   m_transaction_mutex, clockVars, nextId, ub>>

\* ------------------------------------------------------------- caller APIs
\* Service::requestSync (lines 213-217): executeTransaction on the caller's
\* thread.
RequestSync(c) ==
    /\ ~crashed
    /\ pc[c] = "idle"
    /\ nextId <= MaxCalls
    /\ req' = [req EXCEPT ![c] = nextId]
    /\ nextId' = nextId + 1
    /\ pc' = [pc EXCEPT ![c] = "ex_create"]
    /\ UNCHANGED <<txVars, extVars>>
    /\ UNCHANGED <<res, execTx, sentFrames, dequeued, objVars, queueVars,
                   flagVars, m_transaction_mutex, clockVars, ub>>

\* Service::requestAsync, lines 220-222: the early returns.  The payload is
\* not empty; the queue counts as full only when it holds more than
\* REQUEST_QUEUE_SIZE entries.
RequestAsyncCheck(c) ==
    /\ ~crashed
    /\ pc[c] = "idle"
    /\ nextId <= MaxCalls
    /\ nextId' = nextId + 1
    /\ IF ~m_service_is_running \/ Len(m_request_queue) > REQUEST_QUEUE_SIZE
       THEN UNCHANGED <<pc, req>>
       ELSE /\ pc' = [pc EXCEPT ![c] = "ra_start"]
            /\ req' = [req EXCEPT ![c] = nextId]
    /\ UNCHANGED <<txVars, extVars>>
    /\ UNCHANGED <<res, execTx, sentFrames, dequeued, objVars, queueVars,
                   flagVars, m_transaction_mutex, clockVars, ub>>

\* Service::startPhysicalProcessingThread (lines 244-262), called at line 225:
\* nothing to do while m_phys_thread_active is set; otherwise join the
\* previous thread object and start a new worker.
RequestAsyncStart(c) ==
    /\ ~crashed
    /\ pc[c] = "ra_start"
    /\ IF m_phys_thread_active
       THEN pc' = [pc EXCEPT ![c] = "ra_enq"]
       ELSE /\ pc[Worker] \in {"w_none", "w_done"}
            /\ pc' = [pc EXCEPT ![c] = "ra_enq", ![Worker] = "w_loop"]
    /\ m_phys_thread_active' = TRUE
    /\ UNCHANGED <<txVars, extVars>>
    /\ UNCHANGED <<req, res, execTx, sentFrames, dequeued, objVars, queueVars,
                   m_service_is_running, m_keep_alive_active,
                   tester_present_interval_ms, m_transaction_mutex, clockVars,
                   nextId, ub>>

\* Lines 227-228: enqueue the request and return Ok.
RequestAsyncEnqueue(c) ==
    /\ ~crashed
    /\ pc[c] = "ra_enq"
    /\ m_request_queue' = Append(m_request_queue, req[c])
    /\ req' = [req EXCEPT ![c] = 0]
    /\ pc' = [pc EXCEPT ![c] = "idle"]
    /\ UNCHANGED <<txVars, extVars>>
    /\ UNCHANGED <<res, execTx, sentFrames, dequeued, objVars,
                   m_response_queue, flagVars, m_transaction_mutex, clockVars,
                   nextId, ub>>

\* Service::readResponse (lines 422-429): a timed dequeue of the response
\* queue that finds an entry.  (When it finds none within the timeout it
\* returns NoResponseInQueue and changes nothing.)
ReadResponse(c) ==
    /\ ~crashed
    /\ pc[c] = "idle"
    /\ m_response_queue # <<>>
    /\ m_response_queue' = Tail(m_response_queue)
    /\ UNCHANGED <<txVars, extVars>>
    /\ UNCHANGED <<thrVars, objVars, m_request_queue, flagVars,
                   m_transaction_mutex, clockVars, nextId, ub>>

\* Service::abort is entered (line 455).
AbortCall(c) ==
    /\ ~crashed
    /\ pc[c] = "idle"
    /\ pc' = [pc EXCEPT ![c] = "ab_phys"]
    /\ UNCHANGED <<txVars, extVars>>
    /\ UNCHANGED <<req, res, execTx, sentFrames, dequeued, objVars, queueVars,
                   flagVars, m_transaction_mutex, clockVars, nextId, ub>>

\* Lines 456-459: under m_transaction_pointer_mutex, stopExecution() on the
\* object m_transaction points to, if any.
AbortPhysical(c) ==
    /\ ~crashed
    /\ pc[c] = "ab_phys"
    /\ m_abort_flag' = IF m_transaction = NoTx THEN m_abort_flag
                       ELSE m_abort_flag \cup {m_transaction}
    /\ pc' = [pc EXCEPT ![c] = "idle"]
    /\ UNCHANGED <<txVars, extVars>>
    /\ UNCHANGED <<req, res, execTx, sentFrames, dequeued, m_transaction,
                   dangling, queueVars, flagVars, m_transaction_mutex, clockVars,
                   nextId, ub>>

\* Service::startKeepAlive (lines 466-472).
StartKeepAlive(c) ==
    /\ ~crashed
    /\ pc[c] = "idle"
    /\ ~m_keep_alive_active
    /\ m_keep_alive_active' = TRUE
    /\ updateLastTxTime
    /\ pc' = [pc EXCEPT ![KeepAlive] = "ka_loop"]
    /\ UNCHANGED <<txVars, extVars>>
    /\ UNCHANGED <<req, res, execTx, sentFrames, dequeued, objVars, queueVars,
                   m_phys_thread_active, m_service_is_running,
                   tester_present_interval_ms, m_transaction_mutex, nextId, ub>>

\* ------------------------------------------------------- physical worker
\* Line 316: the loop condition of physicalProcessingThreadFunc.
WorkerLoop ==
    /\ ~crashed
    /\ pc[Worker] = "w_loop"
    /\ pc' = [pc EXCEPT ![Worker] =
                 IF m_service_is_running /\ m_phys_thread_active
                 THEN "w_wait" ELSE "w_exit"]
    /\ UNCHANGED <<txVars, extVars>>
    /\ UNCHANGED <<req, res, execTx, sentFrames, dequeued, objVars, queueVars,
                   flagVars, m_transaction_mutex, clockVars, nextId, ub>>

\* Line 318: wait_dequeue_timed.  It returns an element, or false when the
\* queue stayed empty for ASYNC_THREAD_IDLE_TIMEOUT_MIN minutes.
WorkerWait ==
    /\ ~crashed
    /\ pc[Worker] = "w_wait"
    /\ IF m_request_queue # <<>>
       THEN /\ req' = [req EXCEPT ![Worker] = Head(m_request_queue)]
            /\ m_request_queue' = Tail(m_request_queue)
            /\ dequeued' = TRUE
       ELSE /\ dequeued' = FALSE
            /\ UNCHANGED <<req, m_request_queue>>
    /\ pc' = [pc EXCEPT ![Worker] = "w_post"]
    /\ UNCHANGED <<txVars, extVars>>
    /\ UNCHANGED <<res, execTx, sentFrames, objVars, m_response_queue, flagVars,
                   m_transaction_mutex, clockVars, nextId, ub>>

\* Lines 320-333: leave when stopped or idle, skip an empty payload, else run
\* executeTransaction on the dequeued payload.
WorkerPost ==
    /\ ~crashed
    /\ pc[Worker] = "w_post"
    /\ pc' = [pc EXCEPT ![Worker] =
                 IF ~m_phys_thread_active \/ ~m_service_is_running THEN "w_exit"
                 ELSE IF ~dequeued THEN "w_exit"
                 ELSE IF req[Worker] = 0 THEN "w_loop"
                 ELSE "ex_create"]
    /\ dequeued' = FALSE
    /\ UNCHANGED <<txVars, extVars>>
    /\ UNCHANGED <<req, res, execTx, sentFrames, objVars, queueVars, flagVars,
                   m_transaction_mutex, clockVars, nextId, ub>>

\* A hand-over without the test of line 334: Aborted is queued too.
WorkerEnqueue_All ==
    /\ ~crashed
    /\ pc[Worker] = "w_enq"
    /\ m_response_queue' = Append(m_response_queue, res[Worker])
    /\ req' = [req EXCEPT ![Worker] = 0]
    /\ res' = [res EXCEPT ![Worker] = NoRes]
    /\ pc' = [pc EXCEPT ![Worker] = "w_loop"]
    /\ UNCHANGED <<txVars, extVars>>
    /\ UNCHANGED <<execTx, sentFrames, dequeued, objVars, m_request_queue,
                   flagVars, m_transaction_mutex, clockVars, nextId, ub>>

\* Lines 334-336: the result goes to the response queue unless it is Aborted.
WorkerEnqueue ==
    /\ ~crashed
    /\ pc[Worker] = "w_enq"
    /\ m_response_queue' = IF res[Worker].code # "Aborted"
                           THEN Append(m_response_queue, res[Worker])
                           ELSE m_response_queue
    /\ req' = [req EXCEPT ![Worker] = 0]
    /\ res' = [res EXCEPT ![Worker] = NoRes]
    /\ pc' = [pc EXCEPT ![Worker] = "w_loop"]
    /\ UNCHANGED <<txVars, extVars>>
    /\ UNCHANGED <<execTx, sentFrames, dequeued, objVars, m_request_queue,
                   flagVars, m_transaction_mutex, clockVars, nextId, ub>>

\* Line 339: the worker clears m_phys_thread_active and its function returns.
WorkerExit ==
    /\ ~crashed
    /\ pc[Worker] = "w_exit"
    /\ m_phys_thread_active' = FALSE
    /\ pc' = [pc EXCEPT ![Worker] = "w_done"]
    /\ UNCHANGED <<txVars, extVars>>
    /\ UNCHANGED <<req, res, execTx, sentFrames, dequeued, objVars, queueVars,
                   m_service_is_running, m_keep_alive_active,
                   tester_present_interval_ms, m_transaction_mutex, clockVars,
                   nextId, ub>>

\* ------------------------------------------------------ keep-alive thread
\* Lines 485-496: leave when stopped or when the interval is 0; sleep while
\* the last transmit is recent; otherwise go for the transaction mutex.
KeepAliveLoop ==
    /\ ~crashed
    /\ pc[KeepAlive] = "ka_loop"
    /\ pc' = [pc EXCEPT ![KeepAlive] =
                 IF ~m_keep_alive_active \/ tester_present_interval_ms = 0
                 THEN "ka_done"
                 ELSE IF ~kaDue THEN "ka_loop" ELSE "ka_lock"]
    /\ UNCHANGED <<txVars, extVars>>
    /\ UNCHANGED <<req, res, execTx, sentFrames, dequeued, objVars, queueVars,
                   flagVars, m_transaction_mutex, clockVars, nextId, ub>>

\* A keep-alive thread that would go on to send without the lock.
KeepAliveLock_NoMutex ==
    /\ ~crashed
    /\ pc[KeepAlive] = "ka_lock"
    /\ pc' = [pc EXCEPT ![KeepAlive] = "ka_send"]
    /\ UNCHANGED <<txVars, extVars>>
    /\ UNCHANGED <<req, res, execTx, sentFrames, dequeued, objVars, queueVars,
                   flagVars, m_transaction_mutex, clockVars, nextId, ub>>

\* Line 499: std::lock_guard<std::mutex> tx_lock(m_transaction_mutex).
KeepAliveLock ==
    /\ ~crashed
    /\ pc[KeepAlive] = "ka_lock"
    /\ TxMutexAcquire(KeepAlive)
    /\ pc' = [pc EXCEPT ![KeepAlive] = "ka_send"]
    /\ UNCHANGED <<txVars, extVars>>
    /\ UNCHANGED <<req, res, execTx, sentFrames, dequeued, objVars, queueVars,
                   flagVars, clockVars, nextId, ub>>

\* Lines 500-516, under the mutex: re-read the elapsed time; if the interval
\* has still elapsed send the Tester-Present frame, and stamp the transmit
\* time when the send succeeded.  The lock is released either way.
KeepAliveSend ==
    /\ ~crashed
    /\ pc[KeepAlive] = "ka_send"
    /\ IF ~kaDue
       THEN UNCHANGED clockVars
       ELSE \E sendOk \in BOOLEAN :
               IF sendOk THEN updateLastTxTime ELSE UNCHANGED clockVars
    /\ m_transaction_mutex' = NoThread
    /\ pc' = [pc EXCEPT ![KeepAlive] = "ka_loop"]
    /\ UNCHANGED <<txVars, extVars>>
    /\ UNCHANGED <<req, res, execTx, sentFrames, dequeued, objVars, queueVars,
                   flagVars, nextId, ub>>

\* Time passes: the interval since the last transmit has elapsed.
Tick ==
    /\ ~crashed
    /\ ~kaDue
    /\ kaDue' = TRUE
    /\ UNCHANGED unstampedSend
    /\ UNCHANGED <<txVars, extVars>>
    /\ UNCHANGED <<thrVars, objVars, queueVars, flagVars, m_transaction_mutex,
                   nextId, ub>>

\* =============================================================== Transaction
\* One Transaction (vci_uds_transaction.cpp) executed by one thread, with the
\* frame provider, the frame sender, the clock and a second thread that may
\* call stopExecution().

\* wait_chunk_ms of waitForFrame.
wait_chunk_ms == 10
\* Largest max_nrc78_count of the configurations tried.
MaxNrc78 == 2
\* Value at which the history clock sinceArmed stops counting.
ClockCap == 26

\* The Transaction object of SpecTx.
TxObj == "c1"
aborted == TxObj \in m_abort_flag

Min(a, b) == IF a < b THEN a ELSE b

\* tp_config and can_type of the session contexts tried.
TpConfigs ==
    [can_type : {"CLASSIC"}, n_as_timeout : {12}, n_bs_timeout : {12},
     n_cr_timeout : {5}, n_ar_timeout : {15},
     max_nrc78_count : 0..MaxNrc78, block_size : {0}, st_min : {0}]

\* Request payloads tried: one fitting a Single Frame, one needing a First
\* Frame and one Consecutive Frame, one needing two Consecutive Frames.
RequestSizes == {2, 9, 20}
RequestPayloads == {[i \in 1..n |-> i] : n \in RequestSizes}

Zeros(n) == [i \in 1..n |-> 0]

\* Frames the bus can deliver.  A frame is written as what
\* ProtocolUtils::parse makes of it; pci_type "INVALID" is a frame parse
\* rejects.
SfPayloads == {<<98, 1>>, <<127, 34, 120>>, <<127, 34, 17>>}
FfTotals == {6, 8, 14}
RxFrames ==
    {[CanID |-> "response_id", pci_type |-> "SF", payload |-> p] :
        p \in SfPayloads}
    \cup {[CanID |-> "response_id", pci_type |-> "FF", total_size |-> n,
           payload |-> <<b>> \o Zeros(5)] : n \in FfTotals, b \in {98, 127}}
    \cup {[CanID |-> "response_id", pci_type |-> "CF", sequence_number |-> sn,
           payload |-> Zeros(7)] : sn \in {1, 2}}
    \cup {[CanID |-> "response_id", pci_type |-> "FC", status |-> s,
           block_size |-> bs, separation_time |-> st] :
              s \in {"CONTINUE_TO_SEND", "WAIT", "OVERFLOW"},
              bs \in {0, 1}, st \in {0, 2}}
    \cup {[CanID |-> "response_id", pci_type |-> "INVALID"],
          [CanID |-> "other_id", pci_type |-> "SF", payload |-> <<98, 1>>]}

nullopt == [CanID |-> "none", pci_type |-> "none"]

\* ProtocolUtils::parse: whether the CAN frame decodes to a tp frame.
parse(f) == f.pci_type # "INVALID"

\* A separation time stored as the byte received.
SeparationTime_Raw(st) == st

\* fc.separation_time as handle_wait_for_fc stores it (lines 189-195).
SeparationTime(st) ==
    IF st <= 127 THEN st
    ELSE IF st >= 241 /\ st <= 249 THEN 1 ELSE 127

\* ------------------------------------------------------------- Segmenter
NoSegmenter == [engaged |-> FALSE, offset |-> 0, sn |-> 0]

\* Segmenter::getNextFrame: the First Frame with the leading 6 bytes, then
\* Consecutive Frames of up to 7 bytes.
getNextFrame ==
    LET off == m_segmenter.offset
        len == Len(m_request_payload)
    IN  IF off = 0
        THEN [pci_type |-> "FF", total_size |-> len,
              payload |-> SubSeq(m_request_payload, 1, Min(6, len))]
        ELSE [pci_type |-> "CF", sequence_number |-> m_segmenter.sn,
              payload |-> SubSeq(m_request_payload, off + 1, Min(off + 7, len))]

\* A segmenter whose sequence numbers go from 15 to 1.
SegmenterAdvanced_SkipsZero ==
    [engaged |-> TRUE,
     offset |-> Min(Len(m_request_payload),
                    m_segmenter.offset + (IF m_segmenter.offset = 0 THEN 6 ELSE 7)),
     sn |-> IF m_segmenter.sn = 15 THEN 1 ELSE m_segmenter.sn + 1]

\* The segmenter after getNextFrame.
SegmenterAdvanced ==
    [engaged |-> TRUE,
     offset |-> Min(Len(m_request_payload),
                    m_segmenter.offset + (IF m_segmenter.offset = 0 THEN 6 ELSE 7)),
     sn |-> (m_segmenter.sn + 1) % 16]

isDone == m_segmenter.offset >= Len(m_request_payload)

\* ----------------------------------------------------------- Reassembler
NoReassembly == [status |-> "IDLE", expected_sn |-> 0, total_size |-> 0,
                 payload |-> <<>>]

Clip(bytes, n) == SubSeq(bytes, 1, Min(Len(bytes), n))

\* A reassembler that takes every Consecutive Frame for the expected one.
SequenceMismatch_Never(r, f) == FALSE

\* The Consecutive Frame does not carry the expected sequence number.
SequenceMismatch(r, f) == f.sequence_number # r.expected_sn

\* A reassembler whose expected sequence number never wraps.
processFrame_NoWrap(r, f) ==
    IF r.status = "IDLE"
    THEN IF f.pci_type = "FF"
         THEN LET buf == Clip(f.payload, f.total_size)
              IN  [status |-> IF Len(buf) >= f.total_size THEN "COMPLETE"
                              ELSE "IN_PROGRESS",
                   expected_sn |-> 1, total_size |-> f.total_size,
                   payload |-> buf]
         ELSE [r EXCEPT !.status = "ERROR_UNEXPECTED_FRAME"]
    ELSE IF r.status = "IN_PROGRESS"
    THEN IF f.pci_type # "CF"
         THEN [r EXCEPT !.status = "ERROR_UNEXPECTED_FRAME"]
         ELSE IF SequenceMismatch(r, f)
         THEN [r EXCEPT !.status = "ERROR_SEQUENCE"]
         ELSE LET buf == r.payload \o Clip(f.payload, r.total_size - Len(r.payload))
              IN  [status |-> IF Len(buf) >= r.total_size THEN "COMPLETE"
                              ELSE "IN_PROGRESS",
                   expected_sn |-> r.expected_sn + 1,
                   total_size |-> r.total_size, payload |-> buf]
    ELSE r

\* Reassembler::processFrame: the reassembler after frame f.
processFrame(r, f) ==
    IF r.status = "IDLE"
    THEN IF f.pci_type = "FF"
         THEN LET buf == Clip(f.payload, f.total_size)
              IN  [status |-> IF Len(buf) >= f.total_size THEN "COMPLETE"
                              ELSE "IN_PROGRESS",
                   expected_sn |-> 1, total_size |-> f.total_size,
                   payload |-> buf]
         ELSE [r EXCEPT !.status = "ERROR_UNEXPECTED_FRAME"]
    ELSE IF r.status = "IN_PROGRESS"
    THEN IF f.pci_type # "CF"
         THEN [r EXCEPT !.status = "ERROR_UNEXPECTED_FRAME"]
         ELSE IF SequenceMismatch(r, f)
         THEN [r EXCEPT !.status = "ERROR_SEQUENCE"]
         ELSE LET buf == r.payload \o Clip(f.payload, r.total_size - Len(r.payload))
              IN  [status |-> IF Len(buf) >= r.total_size THEN "COMPLETE"
                              ELSE "IN_PROGRESS",
                   expected_sn |-> (r.expected_sn + 1) % 16,
                   total_size |-> r.total_size, payload |-> buf]
    ELSE r

\* --------------------------------------------------------------- state
NoStop == [called |-> FALSE, inWait |-> FALSE, returns |-> 0, data |-> FALSE]

\* The Transaction after its constructor (lines 20-37), execute() not yet
\* called.
TxConstructed(cfg, payload) ==
    /\ m_context = cfg
    /\ m_request_payload = payload
    /\ m_state = "START"
    /\ m_result = [success |-> FALSE, result_code |-> "InternalError",
                   response_payload |-> <<>>]
    /\ m_nrc78_count = 0
    /\ m_segmenter = NoSegmenter
    /\ m_fc_block_size_from_ecu = 0
    /\ m_fc_frames_sent_in_block = 0
    /\ m_fc_separation_time_from_ecu = 0
    /\ m_reassembler = NoReassembly
    /\ at = "new"
    /\ elapsed = 0
    /\ timeout_ms = 0
    /\ chunk = 0
    /\ frame_opt = nullopt
    /\ sent = <<>>
    /\ sinceArmed = 0
    /\ stopSeen = NoStop

InitTx ==
    /\ InitCommon
    /\ tester_present_interval_ms = 0
    /\ \E cfg \in TpConfigs, payload \in RequestPayloads :
          TxConstructed(cfg, payload)
    /\ svc_m_context = m_context

\* Everything of the service but the abort flags.
svcRest == <<thrVars, m_transaction, dangling, queueVars, flagVars,
             m_transaction_mutex, clockVars, nextId, ub>>
cfgVars == <<m_context, m_request_payload>>
fcVars == <<m_fc_block_size_from_ecu, m_fc_frames_sent_in_block,
            m_fc_separation_time_from_ecu>>
waitVars == <<elapsed, timeout_ms, chunk, frame_opt>>

\* What no step of the transaction changes.
txFixed == <<svcRest, cfgVars, extVars>>

\* m_result and m_state when execute() is about to return.
Finish(ok, code, payload) ==
    /\ m_result' = [success |-> ok, result_code |-> code,
                    response_payload |-> payload]
    /\ m_state' = IF ok THEN "COMPLETED" ELSE "FAILED"
    /\ at' = "done"

\* Transaction::fail (lines 92-96); the execute loop then ends.
fail(code) == Finish(FALSE, code, m_result.response_payload)

\* A negative response that would fail without clearing the success flag.
FinishWithPayload_StillSuccess(payload) ==
    IF payload # <<>> /\ payload[1] = 127
    THEN Finish(TRUE, "NegativeResponse", payload)
    ELSE Finish(TRUE, "Ok", payload)

\* Lines 288-294 and 360-366: a payload starting with 0x7F is a negative
\* response.
FinishWithPayload(payload) ==
    IF payload # <<>> /\ payload[1] = 127
    THEN Finish(FALSE, "NegativeResponse", payload)
    ELSE Finish(TRUE, "Ok", payload)

\* Transaction::sendFrame: the frame is handed to the sender.
sendFrame(f) == sent' = Append(sent, f)

Tick_ms(d) == sinceArmed' = Min(ClockCap, sinceArmed + d)

\* Transaction::stopExecution (lines 39-41), called by another thread.
stopExecution ==
    /\ ~aborted
    /\ at # "done"
    /\ m_abort_flag' = m_abort_flag \cup {TxObj}
    /\ stopSeen' = [called |-> TRUE, inWait |-> at \in {"wff", "prov"},
                    returns |-> 0, data |-> FALSE]
    /\ UNCHANGED <<txFixed, m_state, m_result, m_nrc78_count, m_segmenter,
                   fcVars, m_reassembler, at, waitVars, sent, sinceArmed>>

\* execute(), line 44.
execute_begin ==
    /\ at = "new"
    /\ m_state' = "START"
    /\ at' = "loop"
    /\ UNCHANGED <<txFixed, m_abort_flag, m_result, m_nrc78_count, m_segmenter,
                   fcVars, m_reassembler, waitVars, sent, sinceArmed, stopSeen>>

\* execute(), lines 45-50: the abort flag is seen at the top of the loop.
execute_abort ==
    /\ at = "loop"
    /\ aborted
    /\ fail("Aborted")
    /\ UNCHANGED <<txFixed, m_abort_flag, m_nrc78_count, m_segmenter, fcVars,
                   m_reassembler, waitVars, sent, sinceArmed, stopSeen>>

\* A loop of execute() that would dispatch without looking at the abort flag.
Dispatch_NoAbortCheck(state) ==
    /\ at = "loop"
    /\ m_state = state

Dispatch(state) ==
    /\ at = "loop"
    /\ ~aborted
    /\ m_state = state

\* A single-frame capacity one byte short on both channels.
max_sf_payload_Short(can_type) == IF can_type # "CLASSIC" THEN 61 ELSE 6

\* max_sf_payload of handle_start (line 117): 62 for CAN FD, 7 for classic.
max_sf_payload(can_type) == IF can_type # "CLASSIC" THEN 62 ELSE 7

\* handle_start (lines 116-130).
handle_start ==
    /\ Dispatch("START")
    /\ LET \* max_payload is 0xFFFFFFFF for CAN FD: no sequence is longer.
           too_large == /\ m_context.can_type = "CLASSIC"
                        /\ Len(m_request_payload) > 4095
       IN  IF Len(m_request_payload) <= max_sf_payload(m_context.can_type)
           THEN /\ m_state' = "SEND_SINGLE_FRAME"
                /\ UNCHANGED <<m_result, at, m_segmenter>>
           ELSE IF too_large
           THEN /\ fail("PayloadTooLarge")
                /\ UNCHANGED m_segmenter
           ELSE /\ m_segmenter' = [engaged |-> TRUE, offset |-> 0, sn |-> 0]
                /\ m_state' = "SEND_FIRST_FRAME"
                /\ UNCHANGED <<m_result, at>>
    /\ UNCHANGED <<txFixed, m_abort_flag, m_nrc78_count, fcVars, m_reassembler,
                   waitVars, sent, sinceArmed, stopSeen>>

\* handle_send_single_frame (lines 132-145); ok is what the sender returns.
handle_send_single_frame(ok) ==
    /\ Dispatch("SEND_SINGLE_FRAME")
    /\ sendFrame([pci_type |-> "SF", payload |-> m_request_payload])
    /\ IF ok
       THEN /\ m_state' = "WAIT_FOR_RESPONSE"
            /\ UNCHANGED <<m_result, at>>
       ELSE fail("SendFailed")
    /\ sinceArmed' = 0
    /\ UNCHANGED <<txFixed, m_abort_flag, m_nrc78_count, m_segmenter, fcVars,
                   m_reassembler, waitVars, stopSeen>>

\* handle_send_first_frame (lines 147-161).
handle_send_first_frame(ok) ==
    /\ Dispatch("SEND_FIRST_FRAME")
    /\ IF ~m_segmenter.engaged
       THEN /\ fail("InternalError")
            /\ UNCHANGED <<m_segmenter, sent>>
       ELSE /\ sendFrame(getNextFrame)
            /\ m_segmenter' = SegmenterAdvanced
            /\ IF ok
               THEN /\ m_state' = "WAIT_FOR_FC"
                    /\ UNCHANGED <<m_result, at>>
               ELSE fail("SendFailed")
    /\ sinceArmed' = 0
    /\ UNCHANGED <<txFixed, m_abort_flag, m_nrc78_count, fcVars, m_reassembler,
                   waitVars, stopSeen>>

\* The call waitForFrame(timeout) that opens handle_wait_for_fc (line 164),
\* handle_wait_for_response (lines 249-252) and
\* handle_receive_consecutive_frames (lines 329-330): start_time is now.
waitForFrame_call ==
    /\ at = "loop"
    /\ ~aborted
    /\ \/ /\ m_state = "WAIT_FOR_FC"
          /\ timeout_ms' = m_context.n_bs_timeout
       \/ /\ m_state = "WAIT_FOR_RESPONSE"
          /\ timeout_ms' = m_context.n_as_timeout
       \/ /\ m_state = "RECEIVE_CONSECUTIVE_FRAMES"
          /\ m_reassembler.status = "IN_PROGRESS"
          /\ timeout_ms' = m_context.n_cr_timeout
    /\ elapsed' = 0
    /\ at' = "wff"
    /\ UNCHANGED <<txFixed, m_abort_flag, m_state, m_result, m_nrc78_count,
                   m_segmenter, fcVars, m_reassembler, chunk, frame_opt, sent,
                   sinceArmed, stopSeen>>

\* waitForFrame without its abort check (lines 70-76 only).
waitForFrame_poll_NoAbortCheck ==
    /\ at = "wff"
    /\ IF elapsed >= timeout_ms
       THEN /\ frame_opt' = nullopt
            /\ at' = "got"
            /\ UNCHANGED chunk
       ELSE /\ chunk' = Min(wait_chunk_ms, timeout_ms - elapsed)
            /\ at' = "prov"
            /\ UNCHANGED frame_opt
    /\ UNCHANGED <<txFixed, m_abort_flag, m_state, m_result, m_nrc78_count,
                   m_segmenter, fcVars, m_reassembler, elapsed, timeout_ms,
                   sent, sinceArmed, stopSeen>>

\* waitForFrame, lines 65-78: the abort check, the master timeout, and the
\* provider called with the next chunk.
waitForFrame_poll ==
    /\ at = "wff"
    /\ IF aborted \/ elapsed >= timeout_ms
       THEN /\ frame_opt' = nullopt
            /\ at' = "got"
            /\ UNCHANGED chunk
       ELSE LET remaining_time_ms == timeout_ms - elapsed
            IN  /\ chunk' = Min(wait_chunk_ms,
                                IF remaining_time_ms > 0 THEN remaining_time_ms
                                ELSE 1)
                /\ at' = "prov"
                /\ UNCHANGED frame_opt
    /\ UNCHANGED <<txFixed, m_abort_flag, m_state, m_result, m_nrc78_count,
                   m_segmenter, fcVars, m_reassembler, elapsed, timeout_ms,
                   sent, sinceArmed, stopSeen>>

StopSeenAfter(gotData) ==
    IF stopSeen.called
    THEN [stopSeen EXCEPT !.returns = Min(@ + 1, 2), !.data = @ \/ gotData]
    ELSE stopSeen

\* The provider call of line 78 returns empty-handed after the whole chunk.
provider_timeout ==
    /\ at = "prov"
    /\ elapsed' = elapsed + chunk
    /\ Tick_ms(chunk)
    /\ at' = "wff"
    /\ stopSeen' = StopSeenAfter(FALSE)
    /\ chunk' = 0
    /\ UNCHANGED <<txFixed, m_abort_flag, m_state, m_result, m_nrc78_count,
                   m_segmenter, fcVars, m_reassembler, timeout_ms, frame_opt,
                   sent>>

\* The provider call of line 78 returns frame f after d ms; lines 79-81 hand
\* it to the handler only if it carries the response id.
provider_frame(f, d) ==
    /\ at = "prov"
    /\ elapsed' = elapsed + d
    /\ Tick_ms(d)
    /\ IF f.CanID = "response_id"
       THEN /\ frame_opt' = f
            /\ at' = "got"
       ELSE /\ at' = "wff"
            /\ UNCHANGED frame_opt
    /\ stopSeen' = StopSeenAfter(TRUE)
    /\ chunk' = 0
    /\ UNCHANGED <<txFixed, m_abort_flag, m_state, m_result, m_nrc78_count,
                   m_segmenter, fcVars, m_reassembler, timeout_ms, sent>>

\* `continue` in a wait handler: waitForFrame is called again with the same
\* timeout, and takes a new start_time.  (Every handler step ends the life of
\* its local can_frame_opt.)
waitForFrame_again ==
    /\ elapsed' = 0
    /\ at' = "wff"

\* A wait that reports its timeout whatever the abort flag says.
WaitFailure_TimeoutFirst(timeout_code) == timeout_code

\* What a wait handler fails with when waitForFrame returned no frame (lines
\* 165-172, 253-260, 331-338): the abort flag is read first.
WaitFailure(timeout_code) == IF aborted THEN "Aborted" ELSE timeout_code

\* A Flow Control Wait that fails the transaction like an Overflow.
FlowStatusWait_Fails ==
    /\ fail("FcOverflow")
    /\ UNCHANGED fcVars

\* case UDS_TP_FLOW_STATUS_WAIT (lines 198-199): nothing but `break`; the
\* handler returns to the loop of execute().
FlowStatusWait ==
    /\ at' = "loop"
    /\ UNCHANGED <<m_state, m_result, fcVars>>

\* A Flow Control Overflow that would be taken for a Continue.
FlowStatusOverflow_Continues ==
    /\ m_state' = "SEND_CONSECUTIVE_FRAMES"
    /\ at' = "loop"
    /\ UNCHANGED <<m_result, fcVars>>

\* A Flow Control Overflow that would be passed over like a Wait.
FlowStatusOverflow_KeepsWaiting ==
    /\ at' = "loop"
    /\ UNCHANGED <<m_state, m_result, fcVars>>

\* case UDS_TP_FLOW_STATUS_OVERFLOW (lines 200-202).
FlowStatusOverflow ==
    /\ fail("FcOverflow")
    /\ UNCHANGED fcVars

\* handle_wait_for_fc after waitForFrame returned (lines 165-203).
handle_wait_for_fc ==
    /\ at = "got"
    /\ m_state = "WAIT_FOR_FC"
    /\ IF frame_opt = nullopt
       THEN /\ fail(WaitFailure("TimeoutBs"))
            /\ UNCHANGED fcVars
       ELSE IF ~parse(frame_opt) \/ frame_opt.pci_type # "FC"
       THEN /\ fail("UnexpectedFrame")
            /\ UNCHANGED fcVars
       ELSE IF frame_opt.status = "CONTINUE_TO_SEND"
       THEN /\ m_fc_block_size_from_ecu' = frame_opt.block_size
            /\ m_fc_frames_sent_in_block' = 0
            /\ m_fc_separation_time_from_ecu' =
                  SeparationTime(frame_opt.separation_time)
            /\ m_state' = "SEND_CONSECUTIVE_FRAMES"
            /\ at' = "loop"
            /\ UNCHANGED m_result
       ELSE IF frame_opt.status = "WAIT"
       THEN FlowStatusWait
       ELSE FlowStatusOverflow
    /\ frame_opt' = nullopt
    /\ UNCHANGED <<txFixed, m_abort_flag, m_nrc78_count, m_segmenter,
                   m_reassembler, elapsed, timeout_ms, chunk, sent, sinceArmed,
                   stopSeen>>

\* handle_send_consecutive_frames, lines 206-211.
handle_send_consecutive_frames ==
    /\ Dispatch("SEND_CONSECUTIVE_FRAMES")
    /\ IF ~m_segmenter.engaged
       THEN fail("InternalError")
       ELSE /\ at' = "cf"
            /\ UNCHANGED <<m_state, m_result>>
    /\ UNCHANGED <<txFixed, m_abort_flag, m_nrc78_count, m_segmenter, fcVars,
                   m_reassembler, waitVars, sent, sinceArmed, stopSeen>>

\* A loop that would go on whatever the sender returned.
SendConsecutive_IgnoresResult(ok) ==
    /\ sendFrame(getNextFrame)
    /\ m_segmenter' = SegmenterAdvanced
    /\ m_fc_frames_sent_in_block' = m_fc_frames_sent_in_block + 1
    /\ at' = "cf"
    /\ UNCHANGED <<m_state, m_result>>

\* Lines 235-241: the next Consecutive Frame goes out.
SendConsecutive(ok) ==
    /\ sendFrame(getNextFrame)
    /\ m_segmenter' = SegmenterAdvanced
    /\ IF ok
       THEN /\ m_fc_frames_sent_in_block' = m_fc_frames_sent_in_block + 1
            /\ at' = "cf"
            /\ UNCHANGED <<m_state, m_result>>
       ELSE /\ fail("SendFailed")
            /\ UNCHANGED m_fc_frames_sent_in_block

\* A block that ends one frame late.
BlockExhausted_OneLate ==
    /\ m_fc_block_size_from_ecu > 0
    /\ m_fc_frames_sent_in_block > m_fc_block_size_from_ecu

\* Line 218: the block announced by the last Flow Control is used up.
BlockExhausted ==
    /\ m_fc_block_size_from_ecu > 0
    /\ m_fc_frames_sent_in_block >= m_fc_block_size_from_ecu

\* One turn of the loop of handle_send_consecutive_frames (lines 212-245) up
\* to the pacing wait.
send_consecutive_turn(ok) ==
    /\ at = "cf"
    /\ IF isDone
       THEN /\ m_state' = "WAIT_FOR_RESPONSE"
            /\ at' = "loop"
            /\ sinceArmed' = 0
            /\ UNCHANGED <<m_result, m_segmenter, m_fc_frames_sent_in_block, sent>>
       ELSE IF aborted
       THEN /\ fail("Aborted")
            /\ UNCHANGED <<m_segmenter, m_fc_frames_sent_in_block, sent,
                           sinceArmed>>
       ELSE IF BlockExhausted
       THEN /\ m_fc_frames_sent_in_block' = 0
            /\ m_state' = "WAIT_FOR_FC"
            /\ at' = "loop"
            /\ sinceArmed' = 0
            /\ UNCHANGED <<m_result, m_segmenter, sent>>
       ELSE IF m_fc_separation_time_from_ecu > 0
       THEN /\ at' = "pace"
            /\ UNCHANGED <<m_state, m_result, m_segmenter,
                           m_fc_frames_sent_in_block, sent, sinceArmed>>
       ELSE /\ SendConsecutive(ok)
            /\ UNCHANGED sinceArmed
    /\ UNCHANGED <<txFixed, m_abort_flag, m_nrc78_count,
                   m_fc_block_size_from_ecu, m_fc_separation_time_from_ecu,
                   m_reassembler, waitVars, stopSeen>>

\* The pacing wait of lines 224-233, in 1 ms sleeps with an abort check
\* before each, then the send.
send_consecutive_paced(ok) ==
    /\ at = "pace"
    /\ IF aborted
       THEN /\ fail("Aborted")
            /\ UNCHANGED <<m_segmenter, m_fc_frames_sent_in_block, sent>>
       ELSE SendConsecutive(ok)
    /\ UNCHANGED <<txFixed, m_abort_flag, m_nrc78_count,
                   m_fc_block_size_from_ecu, m_fc_separation_time_from_ecu,
                   m_reassembler, waitVars, sinceArmed, stopSeen>>

IsPending(payload) ==
    Len(payload) = 3 /\ payload[1] = 127 /\ payload[3] = 120

\* A pending counter without a limit.
Nrc78LimitReached_Never == FALSE

\* Line 276, after m_nrc78_count++ of line 273:
\* m_nrc78_count >= tp_config.max_nrc78_count.
Nrc78LimitReached == m_nrc78_count + 1 >= m_context.max_nrc78_count

\* A Flow Control that would always ask for everything at once.
FlowControlReply_Unlimited ==
    [pci_type |-> "FC", status |-> "CONTINUE_TO_SEND", block_size |-> 0,
     separation_time |-> 0]

\* Lines 301-303: fc = {CONTINUE_TO_SEND, tp_config.block_size,
\* tp_config.st_min}.
FlowControlReply ==
    [pci_type |-> "FC", status |-> "CONTINUE_TO_SEND",
     block_size |-> m_context.block_size,
     separation_time |-> m_context.st_min]

\* A response timeout that would always be reported as TimeoutA.
ResponseTimeoutCode_AlwaysA == "TimeoutA"

\* Line 258: (m_nrc78_count > 0) ? TIMEOUT_P2_STAR : TIMEOUT_A.
ResponseTimeoutCode ==
    IF m_nrc78_count > 0 THEN "TimeoutP2Star" ELSE "TimeoutA"

\* handle_wait_for_response after waitForFrame returned (lines 253-324).
handle_wait_for_response(ok) ==
    /\ at = "got"
    /\ m_state = "WAIT_FOR_RESPONSE"
    /\ IF frame_opt = nullopt
       THEN /\ fail(WaitFailure(ResponseTimeoutCode))
            /\ UNCHANGED <<m_nrc78_count, m_reassembler, elapsed, timeout_ms,
                           sent, sinceArmed>>
       ELSE IF ~parse(frame_opt)
       THEN /\ waitForFrame_again
            /\ UNCHANGED <<m_state, m_result, m_nrc78_count, m_reassembler,
                           timeout_ms, sent, sinceArmed>>
       ELSE IF frame_opt.pci_type = "SF"
       THEN IF IsPending(frame_opt.payload)
            THEN /\ m_nrc78_count' = m_nrc78_count + 1
                 /\ IF Nrc78LimitReached
                    THEN /\ fail("Nrc78LimitExceeded")
                         /\ UNCHANGED <<elapsed, timeout_ms, sinceArmed>>
                    ELSE /\ timeout_ms' = m_context.n_ar_timeout
                         /\ waitForFrame_again
                         /\ sinceArmed' = 0
                         /\ UNCHANGED <<m_state, m_result>>
                 /\ UNCHANGED <<m_reassembler, sent>>
            ELSE /\ FinishWithPayload(frame_opt.payload)
                 /\ UNCHANGED <<m_nrc78_count, m_reassembler, elapsed,
                                timeout_ms, sent, sinceArmed>>
       ELSE IF frame_opt.pci_type = "FF"
       THEN LET r == processFrame(m_reassembler, frame_opt)
            IN  /\ m_reassembler' = r
                /\ IF r.status = "IN_PROGRESS"
                   THEN /\ sendFrame(FlowControlReply)
                        /\ IF ok
                           THEN /\ m_state' = "RECEIVE_CONSECUTIVE_FRAMES"
                                /\ at' = "loop"
                                /\ UNCHANGED m_result
                           ELSE fail("SendFailed")
                        /\ sinceArmed' = 0
                   ELSE /\ IF r.status = "COMPLETE"
                           THEN Finish(TRUE, "Ok", r.payload)
                           ELSE fail("UnexpectedFrame")
                        /\ UNCHANGED <<sent, sinceArmed>>
                /\ UNCHANGED <<m_nrc78_count, elapsed, timeout_ms>>
       ELSE /\ waitForFrame_again
            /\ UNCHANGED <<m_state, m_result, m_nrc78_count, m_reassembler,
                           timeout_ms, sent, sinceArmed>>
    /\ frame_opt' = nullopt
    /\ UNCHANGED <<txFixed, m_abort_flag, m_segmenter, fcVars, chunk, stopSeen>>

\* handle_receive_consecutive_frames after waitForFrame returned
\* (lines 331-369).
handle_receive_consecutive_frames ==
    /\ at = "got"
    /\ m_state = "RECEIVE_CONSECUTIVE_FRAMES"
    /\ IF frame_opt = nullopt
       THEN /\ fail(WaitFailure("TimeoutCr"))
            /\ UNCHANGED <<m_reassembler, elapsed, sinceArmed>>
       ELSE IF ~parse(frame_opt)
       THEN /\ waitForFrame_again
            /\ UNCHANGED <<m_state, m_result, m_reassembler, sinceArmed>>
       ELSE LET r == processFrame(m_reassembler, frame_opt)
            IN  /\ m_reassembler' = r
                /\ IF r.status = "ERROR_SEQUENCE"
                   THEN /\ fail("SequenceError")
                        /\ UNCHANGED <<elapsed, sinceArmed>>
                   ELSE IF r.status = "ERROR_UNEXPECTED_FRAME"
                   THEN /\ fail("UnexpectedFrame")
                        /\ UNCHANGED <<elapsed, sinceArmed>>
                   ELSE IF r.status = "IN_PROGRESS"
                   THEN /\ waitForFrame_again
                        /\ sinceArmed' = 0
                        /\ UNCHANGED <<m_state, m_result>>
                   ELSE IF r.status = "COMPLETE"
                   THEN /\ FinishWithPayload(r.payload)
                        /\ UNCHANGED <<elapsed, sinceArmed>>
                   ELSE /\ fail("InternalError")
                        /\ UNCHANGED <<elapsed, sinceArmed>>
    /\ frame_opt' = nullopt
    /\ UNCHANGED <<txFixed, m_abort_flag, m_nrc78_count, m_segmenter, fcVars,
                   timeout_ms, chunk, sent, stopSeen>>

NextTx ==
    \/ stopExecution
    \/ execute_begin
    \/ execute_abort
    \/ handle_start
    \/ \E ok \in BOOLEAN : handle_send_single_frame(ok)
    \/ \E ok \in BOOLEAN : handle_send_first_frame(ok)
    \/ waitForFrame_call
    \/ waitForFrame_poll
    \/ provider_timeout
    \/ \E f \in RxFrames, d \in {0, chunk} : provider_frame(f, d)
    \/ handle_wait_for_fc
    \/ handle_send_consecutive_frames
    \/ \E ok \in BOOLEAN : send_consecutive_turn(ok)
    \/ \E ok \in BOOLEAN : send_consecutive_paced(ok)
    \/ \E ok \in BOOLEAN : handle_wait_for_response(ok)
    \/ handle_receive_consecutive_frames

\* One Transaction::execute() with its peer, its clock and a thread that may
\* call stopExecution().
SpecTx == InitTx /\ [][NextTx]_vars

\* The service specifications execute no step of SpecTx: its Transaction stays
\* as constructed.
TxNotStarted ==
    /\ TxConstructed(CHOOSE cfg \in TpConfigs : cfg.max_nrc78_count = 0,
                     CHOOSE payload \in RequestPayloads : TRUE)
    /\ svc_m_context = m_context

\* The service after construction (lines 16-28, 55-75); keep-alive is not
\* configured.
InitSvc ==
    /\ InitCommon
    /\ tester_present_interval_ms = 0
    /\ TxNotStarted

\* The service after construction, with any tester-present interval.
InitKa ==
    /\ InitCommon
    /\ tester_present_interval_ms \in TpIntervals
    /\ TxNotStarted

NextSvc ==
    \/ \E t \in ExecThreads : ExCreate(t)
    \/ \E t \in ExecThreads : ExLock(t)
    \/ \E t \in ExecThreads : ExRun(t)
    \/ \E t \in ExecThreads : ExReset(t)
    \/ \E c \in Callers : RequestSync(c)
    \/ \E c \in Callers : RequestAsyncCheck(c)
    \/ \E c \in Callers : RequestAsyncStart(c)
    \/ \E c \in Callers : RequestAsyncEnqueue(c)
    \/ \E c \in Callers : ReadResponse(c)
    \/ \E c \in Callers : AbortCall(c)
    \/ \E c \in Callers : AbortPhysical(c)
    \/ WorkerLoop
    \/ WorkerWait
    \/ WorkerPost
    \/ WorkerEnqueue
    \/ WorkerExit

\* Callers using request_sync, request_async, abort and read_response, and
\* the physical worker.
SpecSvc == InitSvc /\ [][NextSvc]_vars

NextKa ==
    \/ \E t \in ExecThreads : ExCreate(t)
    \/ \E t \in ExecThreads : ExLock(t)
    \/ \E t \in ExecThreads : ExRun(t)
    \/ \E t \in ExecThreads : ExReset(t)
    \/ \E c \in Callers : RequestSync(c)
    \/ \E c \in Callers : StartKeepAlive(c)
    \/ KeepAliveLoop
    \/ KeepAliveLock
    \/ KeepAliveSend
    \/ Tick

\* Callers using request_sync and start_keep_alive, the keep-alive thread and
\* the passing of time.
SpecKa == InitKa /\ [][NextKa]_vars

\* ------------------------------------------------------------------ claims
InExecute(t) == pc[t] = "ex_run"

\* C1: at most one thread is inside Transaction::execute() at any time, and
\* the thread that is inside holds m_transaction_mutex.
C1_OneTransactionAtATime ==
    /\ Cardinality({t \in ExecThreads : InExecute(t)}) <= 1
    /\ \A t \in ExecThreads : InExecute(t) => m_transaction_mutex = t

\* A caller is inside execute() while the other caller and the worker both
\* wait for the transaction mutex.
C1_Witness ==
    \E c \in Callers :
        /\ InExecute(c)
        /\ \A t \in ExecThreads \ {c} : pc[t] = "ex_lock"

\* The keep-alive thread calls sendFrame() for a Tester-Present frame.
KeepAliveSendsFrame ==
    /\ pc[KeepAlive] = "ka_send"
    /\ kaDue
    /\ pc'[KeepAlive] = "ka_loop"

\* C2: no Tester-Present frame is sent while a physical transaction that has
\* sent its first frame has not yet ended.
C2_NoKeepAliveInsideTransaction ==
    [][KeepAliveSendsFrame =>
          \A t \in ExecThreads : ~(InExecute(t) /\ sentFrames[t] > 0)]_vars

\* A transaction has sent a frame and is still running while a keep-alive
\* tick is due and the keep-alive thread waits for the transaction mutex.
C2_Witness ==
    /\ pc[KeepAlive] = "ka_lock"
    /\ kaDue
    /\ \E t \in ExecThreads : InExecute(t) /\ sentFrames[t] > 0

\* C3: when abort() runs its stopExecution() step while a thread is inside
\* execute(), the abort flag of the object being executed is set afterwards.
C3_AbortStopsExecuting ==
    [][\A c \in Callers :
          (pc[c] = "ab_phys" /\ pc'[c] = "idle") =>
              \A t \in ExecThreads :
                  InExecute(t) => (t \notin dangling /\ execTx[t] \in m_abort_flag')]_vars

\* C4: when stopExecution() is called while execute() is inside
\* waitForFrame and the provider delivers no frame afterwards, at most one
\* provider call returns after the stop, none is started once one has
\* returned, and execute() ends FAILED with Aborted; every provider call is
\* given between 1 and wait_chunk_ms milliseconds.
C4_StopInWaitAborts ==
    /\ at = "prov" => chunk \in 1..wait_chunk_ms
    /\ (stopSeen.inWait /\ ~stopSeen.data) =>
          /\ stopSeen.returns <= 1
          /\ at = "prov" => stopSeen.returns = 0
          /\ at = "done" =>
                /\ m_state = "FAILED"
                /\ ~m_result.success
                /\ m_result.result_code = "Aborted"

\* A stop that arrived during a provider call of the extended (n_ar) wait,
\* and the execute() that ended after that call returned empty-handed.
C4_Witness ==
    /\ stopSeen.inWait
    /\ ~stopSeen.data
    /\ stopSeen.returns = 1
    /\ at = "done"
    /\ m_result.result_code = "Aborted"
    /\ timeout_ms = m_context.n_ar_timeout
    /\ m_nrc78_count > 0

\* C5: Nrc78LimitExceeded is the result only when the pending counter
\* exceeds max_nrc78_count (so that max_nrc78_count pendings followed by a
\* positive response still complete).
C5_LimitOnlyWhenExceeded ==
    m_result.result_code = "Nrc78LimitExceeded" =>
        m_nrc78_count > m_context.max_nrc78_count

\* C6: while the transaction waits in WAIT_FOR_RESPONSE, the time since the
\* wait was armed (on entry, or by the last NRC 0x78) never exceeds the
\* current timeout, whatever frames were ignored in between.
C6_IgnoredFramesKeepDeadline ==
    (m_state = "WAIT_FOR_RESPONSE" /\ at \in {"wff", "prov", "got"}) =>
        sinceArmed <= timeout_ms

FcWaitReceived ==
    /\ at = "got"
    /\ m_state = "WAIT_FOR_FC"
    /\ frame_opt.pci_type = "FC"
    /\ frame_opt.status = "WAIT"

\* C7: handling a Flow Control Wait in WAIT_FOR_FC leaves the state, the
\* result and the frames sent as they are and returns to the loop; from the
\* loop, WAIT_FOR_FC either sees the abort flag or calls waitForFrame with a
\* new start time and the whole n_bs; and TimeoutBs is the result only of a
\* wait in which n_bs elapsed without a frame.
C7_FcWaitKeepsWaiting ==
    [][/\ (FcWaitReceived /\ at' # "got") =>
             /\ at' = "loop"
             /\ m_state' = "WAIT_FOR_FC"
             /\ m_result' = m_result
             /\ sent' = sent
       /\ (at = "loop" /\ m_state = "WAIT_FOR_FC" /\ at' # "loop") =>
             IF aborted
             THEN m_result'.result_code = "Aborted"
             ELSE /\ at' = "wff"
                  /\ elapsed' = 0
                  /\ timeout_ms' = m_context.n_bs_timeout
                  /\ sent' = sent
       /\ (m_result.result_code # "TimeoutBs"
             /\ m_result'.result_code = "TimeoutBs") =>
             /\ m_state = "WAIT_FOR_FC"
             /\ frame_opt = nullopt
             /\ elapsed >= m_context.n_bs_timeout
      ]_vars

\* A Flow Control Wait received later than n_bs after the First Frame: an
\* earlier Wait re-armed the timeout.
C7_Witness ==
    /\ FcWaitReceived
    /\ sinceArmed > m_context.n_bs_timeout

\* C8: the physical request queue never holds more than REQUEST_QUEUE_SIZE
\* requests.
C8_QueueBounded ==
    Len(m_request_queue) <= REQUEST_QUEUE_SIZE

\* The worker leaves lines 334-336 with the result of the request it ran.
WorkerHandsOver ==
    /\ pc[Worker] = "w_enq"
    /\ pc'[Worker] # "w_enq"

C10_AcceptedRequestHasWorker ==
    (/\ ~crashed
     /\ m_service_is_running
     /\ m_request_queue # <<>>
     /\ \A c \in Callers : pc[c] = "idle")
        => pc[Worker] \notin {"w_none", "w_done"}

\* ------------------------------------------- pointer locks, lock by lock
\* The variables no step of this section changes unless it says so.
lockFrame == <<execTx, sentFrames, dequeued, queueVars, flagVars,
               m_transaction_mutex, nextId, ub, stopVars, apiVars>>

\* Lines 393-402: stamp the transmit time, take the context snapshot, then
\* std::lock_guard ptr_lock(m_transaction_pointer_mutex).
ExPtrLock(t) ==
    /\ ~crashed
    /\ pc[t] = "ex_create"
    /\ m_transaction_pointer_mutex = NoThread
    /\ m_transaction_pointer_mutex' = t
    /\ updateLastTxTime
    /\ pc' = [pc EXCEPT ![t] = "ex_make"]
    /\ UNCHANGED <<txVars, funcVars, m_functional_pointer_mutex>>
    /\ UNCHANGED <<req, res, lockFrame, objVars>>

\* The lock_guard of line 402 kept beyond its scope.
ExMakeUnlock_Late(t) ==
    UNCHANGED m_transaction_pointer_mutex

\* Line 404: the scope of the lock_guard of line 402 ends.
ExMakeUnlock(t) ==
    /\ m_transaction_pointer_mutex = t
    /\ m_transaction_pointer_mutex' = NoThread

\* Lines 403-404: m_transaction = make_unique<Transaction>(...), which
\* destructs the object held before; the pointer lock is released.
ExMake(t) ==
    /\ ~crashed
    /\ pc[t] = "ex_make"
    /\ ReleaseTransaction
    /\ m_transaction' = t
    /\ m_abort_flag' = m_abort_flag \ {m_transaction, t}
    /\ ExMakeUnlock(t)
    /\ pc' = [pc EXCEPT ![t] = "ex_lock"]
    /\ UNCHANGED <<txVars, funcVars, m_functional_pointer_mutex>>
    /\ UNCHANGED <<req, res, lockFrame, clockVars>>

\* Line 415: std::lock_guard ptr_lock(m_transaction_pointer_mutex).
ExResetLock(t) ==
    /\ ~crashed
    /\ pc[t] = "ex_reset"
    /\ m_transaction_pointer_mutex = NoThread
    /\ m_transaction_pointer_mutex' = t
    /\ pc' = [pc EXCEPT ![t] = "ex_unmake"]
    /\ UNCHANGED <<txVars, funcVars, m_functional_pointer_mutex>>
    /\ UNCHANGED <<req, res, lockFrame, objVars, clockVars>>

\* Lines 416-419: m_transaction.reset(), the pointer lock is released and the
\* result returned; a caller thread returns from requestSync.
ExResetUnlock(t) ==
    /\ ~crashed
    /\ pc[t] = "ex_unmake"
    /\ ReleaseTransaction
    /\ m_transaction' = NoTx
    /\ m_abort_flag' = m_abort_flag \ {m_transaction}
    /\ m_transaction_pointer_mutex' = NoThread
    /\ IF t \in Callers
       THEN /\ pc' = [pc EXCEPT ![t] = "idle"]
            /\ req' = [req EXCEPT ![t] = 0]
            /\ res' = [res EXCEPT ![t] = NoRes]
       ELSE /\ pc' = [pc EXCEPT ![t] = "w_enq"]
            /\ UNCHANGED <<req, res>>
    /\ UNCHANGED <<txVars, funcVars, m_functional_pointer_mutex>>
    /\ UNCHANGED <<lockFrame, clockVars>>

\* Line 456: abort() takes m_transaction_pointer_mutex.
AbortPhysLock(c) ==
    /\ ~crashed
    /\ pc[c] = "ab_phys"
    /\ m_transaction_pointer_mutex = NoThread
    /\ m_transaction_pointer_mutex' = c
    /\ pc' = [pc EXCEPT ![c] = "ab_phys_locked"]
    /\ UNCHANGED <<txVars, funcVars, m_functional_pointer_mutex>>
    /\ UNCHANGED <<req, res, lockFrame, objVars, clockVars>>

\* Lines 457-459: stopExecution() on the physical transaction, if any; the
\* scope of the lock ends.
AbortPhysStop(c) ==
    /\ ~crashed
    /\ pc[c] = "ab_phys_locked"
    /\ m_abort_flag' = IF m_transaction = NoTx THEN m_abort_flag
                       ELSE m_abort_flag \cup {m_transaction}
    /\ m_transaction_pointer_mutex' = NoThread
    /\ pc' = [pc EXCEPT ![c] = "ab_func"]
    /\ UNCHANGED <<txVars, funcVars, m_functional_pointer_mutex>>
    /\ UNCHANGED <<req, res, lockFrame, m_transaction, dangling, clockVars>>

\* Line 461: abort() takes m_functional_pointer_mutex.
AbortFuncLock(c) ==
    /\ ~crashed
    /\ pc[c] = "ab_func"
    /\ m_functional_pointer_mutex = NoThread
    /\ m_functional_pointer_mutex' = c
    /\ pc' = [pc EXCEPT ![c] = "ab_func_locked"]
    /\ UNCHANGED <<txVars, funcVars, m_transaction_pointer_mutex>>
    /\ UNCHANGED <<req, res, lockFrame, objVars, clockVars>>

\* Lines 462-464: stopExecution() on the functional transaction, if any; the
\* scope of the lock ends and abort() returns.
AbortFuncStop(c) ==
    /\ ~crashed
    /\ pc[c] = "ab_func_locked"
    /\ m_abort_flag' = IF m_functional_transaction = NoTx THEN m_abort_flag
                       ELSE m_abort_flag \cup {m_functional_transaction}
    /\ m_functional_pointer_mutex' = NoThread
    /\ pc' = [pc EXCEPT ![c] = "idle"]
    /\ UNCHANGED <<txVars, funcVars, m_transaction_pointer_mutex>>
    /\ UNCHANGED <<req, res, lockFrame, m_transaction, dangling, clockVars>>

\* ------------------------------------------------- functional pipeline
\* The variables of the physical side, which the functional pipeline leaves
\* alone.
physFrame == <<res, execTx, sentFrames, dequeued, m_transaction, dangling,
               queueVars, m_phys_thread_active, m_service_is_running,
               m_keep_alive_active, tester_present_interval_ms, ub, stopVars,
               apiVars>>

\* Service::requestFunctional, lines 232-233: the early returns.  The payload
\* is not empty.
RequestFunctionalCheck(c) ==
    /\ ~crashed
    /\ pc[c] = "idle"
    /\ nextId <= MaxCalls
    /\ nextId' = nextId + 1
    /\ IF ~m_service_is_running
       THEN UNCHANGED <<pc, req>>
       ELSE /\ pc' = [pc EXCEPT ![c] = "rf_start"]
            /\ req' = [req EXCEPT ![c] = nextId]
    /\ UNCHANGED <<txVars, extVars>>
    /\ UNCHANGED <<physFrame, m_abort_flag, m_transaction_mutex, clockVars>>

\* Service::startFunctionalProcessingThread (lines 277-295), called at line
\* 236: nothing to do while m_func_thread_active is set; otherwise join the
\* previous thread object and start a new worker.
RequestFunctionalStart(c) ==
    /\ ~crashed
    /\ pc[c] = "rf_start"
    /\ IF m_func_thread_active
       THEN pc' = [pc EXCEPT ![c] = "rf_enq"]
       ELSE /\ pc[FuncWorker] \in {"f_none", "f_done"}
            /\ pc' = [pc EXCEPT ![c] = "rf_enq", ![FuncWorker] = "f_loop"]
    /\ m_func_thread_active' = TRUE
    /\ UNCHANGED <<txVars, ptrVars, m_functional_transaction,
                   m_functional_request_queue, m_functional_response_queue,
                   funcResponses>>
    /\ UNCHANGED <<req, physFrame, m_abort_flag, m_transaction_mutex,
                   clockVars, nextId>>

\* Lines 238-239: enqueue the request and return Ok.
RequestFunctionalEnqueue(c) ==
    /\ ~crashed
    /\ pc[c] = "rf_enq"
    /\ m_functional_request_queue' = Append(m_functional_request_queue, req[c])
    /\ req' = [req EXCEPT ![c] = 0]
    /\ pc' = [pc EXCEPT ![c] = "idle"]
    /\ UNCHANGED <<txVars, ptrVars, m_functional_transaction,
                   m_functional_response_queue, m_func_thread_active,
                   funcResponses>>
    /\ UNCHANGED <<physFrame, m_abort_flag, m_transaction_mutex, clockVars,
                   nextId>>

\* Lines 346-363: the loop test, wait_dequeue_timed and the tests after it.
\* The worker leaves when it was stopped or when the queue stayed empty for
\* ASYNC_THREAD_IDLE_TIMEOUT_MIN minutes; it skips an empty payload;
\* otherwise it takes the oldest request and the context snapshot (line 364).
FuncWorkerWait ==
    /\ ~crashed
    /\ pc[FuncWorker] = "f_loop"
    /\ IF ~m_service_is_running \/ ~m_func_thread_active
       THEN /\ pc' = [pc EXCEPT ![FuncWorker] = "f_exit"]
            /\ UNCHANGED m_functional_request_queue
       ELSE IF m_functional_request_queue = <<>>
       THEN /\ pc' = [pc EXCEPT ![FuncWorker] = "f_exit"]
            /\ UNCHANGED m_functional_request_queue
       ELSE /\ pc' = [pc EXCEPT ![FuncWorker] =
                        IF Head(m_functional_request_queue) = 0
                        THEN "f_loop" ELSE "f_create"]
            /\ m_functional_request_queue' = Tail(m_functional_request_queue)
    /\ UNCHANGED <<txVars, ptrVars, m_functional_transaction,
                   m_functional_response_queue, m_func_thread_active,
                   funcResponses>>
    /\ UNCHANGED <<req, physFrame, m_abort_flag, m_transaction_mutex,
                   clockVars, nextId>>

\* Line 368: std::lock_guard ptr_lock(m_functional_pointer_mutex).
FuncPtrLock ==
    /\ ~crashed
    /\ pc[FuncWorker] = "f_create"
    /\ m_functional_pointer_mutex = NoThread
    /\ m_functional_pointer_mutex' = FuncWorker
    /\ pc' = [pc EXCEPT ![FuncWorker] = "f_make"]
    /\ UNCHANGED <<txVars, funcVars, m_transaction_pointer_mutex>>
    /\ UNCHANGED <<req, physFrame, m_abort_flag, m_transaction_mutex,
                   clockVars, nextId>>

\* Lines 369-370: m_functional_transaction = make_unique<FunctionalTransaction>
\* with the abort flag clear; the pointer lock is released.
FuncMake ==
    /\ ~crashed
    /\ pc[FuncWorker] = "f_make"
    /\ m_functional_transaction' = FuncWorker
    /\ m_abort_flag' = m_abort_flag \ {FuncWorker}
    /\ m_functional_pointer_mutex' = NoThread
    /\ pc' = [pc EXCEPT ![FuncWorker] = "f_lock"]
    /\ UNCHANGED <<txVars, m_transaction_pointer_mutex,
                   m_functional_request_queue, m_functional_response_queue,
                   m_func_thread_active, funcResponses>>
    /\ UNCHANGED <<req, physFrame, m_transaction_mutex, clockVars, nextId>>

\* A functional worker with a lock of its own instead of m_transaction_mutex.
FuncTxLock_OwnMutex ==
    UNCHANGED m_transaction_mutex

\* Line 373: std::lock_guard<std::mutex> tx_lock(m_transaction_mutex).
FuncTxLock ==
    TxMutexAcquire(FuncWorker)

\* Lines 373-375: take the transaction mutex, clear the receiver and enter
\* FunctionalTransaction::execute().
FuncLock ==
    /\ ~crashed
    /\ pc[FuncWorker] = "f_lock"
    /\ FuncTxLock
    /\ pc' = [pc EXCEPT ![FuncWorker] = "f_run"]
    /\ UNCHANGED <<txVars, extVars>>
    /\ UNCHANGED <<req, physFrame, m_abort_flag, clockVars, nextId>>

\* FunctionalTransaction::execute() broadcasts the request once through the
\* sender closure of line 365, which hands the frame to the Communicator and
\* does not call updateLastTxTime().
FuncSend ==
    /\ ~crashed
    /\ pc[FuncWorker] = "f_run"
    /\ \E sendOk \in BOOLEAN :
          unstampedSend' = (unstampedSend \/ sendOk)
    /\ pc' = [pc EXCEPT ![FuncWorker] = "f_collect"]
    /\ UNCHANGED <<txVars, extVars>>
    /\ UNCHANGED <<req, physFrame, m_abort_flag, m_transaction_mutex, kaDue,
                   nextId>>

\* FunctionalTransaction::execute() returns the replies it collected until
\* the silence timeout or stopExecution(); the scope of tx_lock ends (line
\* 376).
FuncFinish ==
    /\ ~crashed
    /\ pc[FuncWorker] = "f_collect"
    /\ \E n \in 0..1 : funcResponses' = [i \in 1..n |-> "reply"]
    /\ m_transaction_mutex' = NoThread
    /\ pc' = [pc EXCEPT ![FuncWorker] = "f_reset"]
    /\ UNCHANGED <<txVars, ptrVars, m_functional_transaction,
                   m_functional_request_queue, m_functional_response_queue,
                   m_func_thread_active>>
    /\ UNCHANGED <<req, physFrame, m_abort_flag, clockVars, nextId>>

\* Line 379: std::lock_guard ptr_lock(m_functional_pointer_mutex).
FuncResetLock ==
    /\ ~crashed
    /\ pc[FuncWorker] = "f_reset"
    /\ m_functional_pointer_mutex = NoThread
    /\ m_functional_pointer_mutex' = FuncWorker
    /\ pc' = [pc EXCEPT ![FuncWorker] = "f_unmake"]
    /\ UNCHANGED <<txVars, funcVars, m_transaction_pointer_mutex>>
    /\ UNCHANGED <<req, physFrame, m_abort_flag, m_transaction_mutex,
                   clockVars, nextId>>

\* A loop that would enqueue the first reply only.
EnqueueResponses_FirstOnly ==
    IF funcResponses = <<>> THEN m_functional_response_queue
    ELSE Append(m_functional_response_queue, Head(funcResponses))

\* Lines 383-385: for (auto& res : responses)
\* m_functional_response_queue.enqueue(std::move(res)).
EnqueueResponses ==
    m_functional_response_queue \o funcResponses

\* Lines 380-385: m_functional_transaction.reset(), the pointer lock is
\* released, and every reply goes to the functional response queue.
FuncResetUnlock ==
    /\ ~crashed
    /\ pc[FuncWorker] = "f_unmake"
    /\ m_functional_transaction' = NoTx
    /\ m_abort_flag' = m_abort_flag \ {FuncWorker}
    /\ m_functional_pointer_mutex' = NoThread
    /\ m_functional_response_queue' = EnqueueResponses
    /\ funcResponses' = <<>>
    /\ pc' = [pc EXCEPT ![FuncWorker] = "f_loop"]
    /\ UNCHANGED <<txVars, m_transaction_pointer_mutex,
                   m_functional_request_queue, m_func_thread_active>>
    /\ UNCHANGED <<req, physFrame, m_transaction_mutex, clockVars, nextId>>

\* Line 388: the worker clears m_func_thread_active and its function returns.
FuncWorkerExit ==
    /\ ~crashed
    /\ pc[FuncWorker] = "f_exit"
    /\ m_func_thread_active' = FALSE
    /\ pc' = [pc EXCEPT ![FuncWorker] = "f_done"]
    /\ UNCHANGED <<txVars, ptrVars, m_functional_transaction,
                   m_functional_request_queue, m_functional_response_queue,
                   funcResponses>>
    /\ UNCHANGED <<req, physFrame, m_abort_flag, m_transaction_mutex,
                   clockVars, nextId>>

\* Service::readFunctionalResponses (lines 435-446): the bulk dequeue takes
\* what the functional response queue holds.
ReadFunctionalResponses(c) ==
    /\ ~crashed
    /\ pc[c] = "idle"
    /\ m_functional_response_queue # <<>>
    /\ m_functional_response_queue' = <<>>
    /\ UNCHANGED <<txVars, ptrVars, m_functional_transaction,
                   m_functional_request_queue, m_func_thread_active,
                   funcResponses>>
    /\ UNCHANGED <<pc, req, physFrame, m_abort_flag, m_transaction_mutex,
                   clockVars, nextId>>

\* Time passes: a whole tester-present interval goes by without a transmit.
TickInterval ==
    /\ ~crashed
    /\ kaDue' = TRUE
    /\ unstampedSend' = FALSE
    /\ UNCHANGED <<txVars, extVars>>
    /\ UNCHANGED <<thrVars, objVars, queueVars, flagVars, m_transaction_mutex,
                   nextId, ub>>

NextPtr ==
    \/ RequestSync("c1")
    \/ \E c \in Callers : ExPtrLock(c)
    \/ \E c \in Callers : ExMake(c)
    \/ \E c \in Callers : ExLock(c)
    \/ \E c \in Callers : ExRun(c)
    \/ \E c \in Callers : ExResetLock(c)
    \/ \E c \in Callers : ExResetUnlock(c)
    \/ AbortCall("c2")
    \/ AbortPhysLock("c2")
    \/ AbortPhysStop("c2")
    \/ AbortFuncLock("c2")
    \/ AbortFuncStop("c2")
    \/ RequestFunctionalCheck("c1")
    \/ RequestFunctionalStart("c1")
    \/ RequestFunctionalEnqueue("c1")
    \/ ReadFunctionalResponses("c2")
    \/ FuncWorkerWait
    \/ FuncPtrLock
    \/ FuncMake
    \/ FuncLock
    \/ FuncSend
    \/ FuncFinish
    \/ FuncResetLock
    \/ FuncResetUnlock
    \/ FuncWorkerExit

\* One caller using request_sync and request_functional, another using
\* abort and read_functional_responses, and the functional worker, with
\* every acquisition of a pointer lock a step of its own.
SpecPtr == InitSvc /\ [][NextPtr]_vars

\* The threads that hold a pointer-lifetime lock.
PtrHolders ==
    {m_transaction_pointer_mutex, m_functional_pointer_mutex} \ {NoThread}

\* The step with which thread t leaves the scope of its pointer lock.
PtrScopeEnd(t) ==
    IF t = FuncWorker
    THEN FuncMake \/ FuncResetUnlock
    ELSE ExMake(t) \/ ExResetUnlock(t) \/ AbortPhysStop(t) \/ AbortFuncStop(t)

InAbort(c) == pc[c] \in {"ab_phys", "ab_phys_locked", "ab_func", "ab_func_locked"}

\* A thread is inside Transaction::execute() or
\* FunctionalTransaction::execute().
Executing(t) == pc[t] \in {"ex_run", "f_run", "f_collect"}

\* C11: abort() never waits for the transaction mutex and never holds it, and
\* a thread that holds a pointer-lifetime lock is neither executing a
\* transaction nor waiting for the transaction mutex: its next step ends the
\* scope of the lock without waiting for anything.
C11_AbortNeverWaitsForTransaction ==
    /\ \A c \in Callers : InAbort(c) => m_transaction_mutex # c
    /\ \A c \in Callers :
          pc[c] = "ab_phys" /\ m_transaction_pointer_mutex = NoThread /\ ~crashed
             => ENABLED AbortPhysLock(c)
    /\ \A c \in Callers :
          pc[c] = "ab_func" /\ m_functional_pointer_mutex = NoThread /\ ~crashed
             => ENABLED AbortFuncLock(c)
    /\ \A t \in PtrHolders :
          /\ ~Executing(t)
          /\ pc[t] \notin {"ex_lock", "f_lock"}
          /\ m_transaction_mutex # t
          /\ crashed \/ ENABLED PtrScopeEnd(t)

\* abort() has stopped the physical transaction and holds the functional
\* pointer lock while the other caller is inside execute() under the
\* transaction mutex and the functional worker waits for that mutex.
C11_Witness ==
    \E c \in Callers :
        /\ pc[c] = "ab_func_locked"
        /\ \E d \in Callers \ {c} : pc[d] = "ex_run" /\ m_transaction_mutex = d
        /\ pc[FuncWorker] = "f_lock"

\* C13 as stated: the functional worker never acquires the physical
\* transaction mutex.
C13_FunctionalWorkerLeavesTxMutex ==
    m_transaction_mutex # FuncWorker

\* C13: FunctionalTransaction::execute() runs under the same transaction
\* mutex as Transaction::execute(): the functional worker owns
\* m_transaction_mutex while it executes, and a functional and a physical
\* transaction never execute at the same time.
C13_FunctionalSerializedWithPhysical ==
    /\ Executing(FuncWorker) => m_transaction_mutex = FuncWorker
    /\ \A c \in Callers : ~(Executing(FuncWorker) /\ Executing(c))

\* The functional worker is collecting replies inside execute() while a
\* request_sync caller waits for the transaction mutex.
C13_Witness ==
    /\ pc[FuncWorker] = "f_collect"
    /\ \E c \in Callers : pc[c] = "ex_lock" /\ m_transaction = c

NextFuncKa ==
    \/ RequestSync("c2")
    \/ ExCreate("c2")
    \/ ExLock("c2")
    \/ ExRun("c2")
    \/ ExReset("c2")
    \/ StartKeepAlive("c2")
    \/ RequestFunctionalCheck("c1")
    \/ RequestFunctionalStart("c1")
    \/ RequestFunctionalEnqueue("c1")
    \/ ReadFunctionalResponses("c1")
    \/ FuncWorkerWait
    \/ FuncPtrLock
    \/ FuncMake
    \/ FuncLock
    \/ FuncSend
    \/ FuncFinish
    \/ FuncResetLock
    \/ FuncResetUnlock
    \/ FuncWorkerExit
    \/ KeepAliveLoop
    \/ KeepAliveLock
    \/ KeepAliveSend
    \/ Tick
    \/ TickInterval

\* One caller using request_functional and read_functional_responses, another
\* using request_sync and start_keep_alive, the functional worker, the
\* keep-alive thread and the passing of time.
SpecFuncKa == InitKa /\ [][NextFuncKa]_vars

\* C17: the keep-alive thread never sends a Tester-Present while a frame of a
\* transaction left less than one interval ago, because every outbound frame
\* stamps the last transmit time.
C17_NoKeepAliveWithinIntervalOfSend ==
    [][KeepAliveSendsFrame => ~unstampedSend]_vars

\* ------------------------------------- worker start and stop, lock by lock
\* The variables the start and stop operations leave alone.
stopFrame == <<req, res, execTx, sentFrames, dequeued, dangling, m_transaction,
               m_response_queue, tester_present_interval_ms, clockVars, nextId,
               ub, txVars, ptrVars, m_functional_transaction,
               m_functional_response_queue, funcResponses, apiVars>>

\* Service::startPhysicalProcessingThread, lines 246-248, called at line 225:
\* the fast path without the lock.
StartPhysFastPath(c) ==
    /\ ~crashed
    /\ pc[c] = "ra_start"
    /\ pc' = [pc EXCEPT ![c] =
                 IF m_phys_thread_active THEN "ra_enq" ELSE "ra_tlock"]
    /\ UNCHANGED <<stopFrame, m_abort_flag, m_request_queue, flagVars,
                   m_transaction_mutex, m_functional_request_queue,
                   m_func_thread_active, stopVars>>

\* Lines 250-254: std::lock_guard lock(m_phys_thread_mutex), then the second
\* look at m_phys_thread_active; the lock is released on the early return.
StartPhysLock(c) ==
    /\ ~crashed
    /\ pc[c] = "ra_tlock"
    /\ m_phys_thread_mutex = NoThread
    /\ IF m_phys_thread_active
       THEN /\ pc' = [pc EXCEPT ![c] = "ra_enq"]
            /\ UNCHANGED m_phys_thread_mutex
       ELSE /\ pc' = [pc EXCEPT ![c] = "ra_join"]
            /\ m_phys_thread_mutex' = c
    /\ UNCHANGED <<stopFrame, m_abort_flag, m_request_queue, flagVars,
                   m_transaction_mutex, m_functional_request_queue,
                   m_func_thread_active, m_func_thread_mutex, m_communicator>>

\* Lines 256-261: join() returns once the previous worker function has
\* returned; then the flag is set, a new worker is started and the lock
\* released.
StartPhysJoin(c) ==
    /\ ~crashed
    /\ pc[c] = "ra_join"
    /\ pc[Worker] \in {"w_none", "w_done"}
    /\ m_phys_thread_active' = TRUE
    /\ m_phys_thread_mutex' = NoThread
    /\ pc' = [pc EXCEPT ![c] = "ra_enq", ![Worker] = "w_loop"]
    /\ UNCHANGED <<stopFrame, m_abort_flag, m_request_queue,
                   m_service_is_running, m_keep_alive_active,
                   m_transaction_mutex, m_functional_request_queue,
                   m_func_thread_active, m_func_thread_mutex, m_communicator>>

\* Service::startFunctionalProcessingThread, lines 279-281, called at line
\* 236: the fast path without the lock.
StartFuncFastPath(c) ==
    /\ ~crashed
    /\ pc[c] = "rf_start"
    /\ pc' = [pc EXCEPT ![c] =
                 IF m_func_thread_active THEN "rf_enq" ELSE "rf_tlock"]
    /\ UNCHANGED <<stopFrame, m_abort_flag, m_request_queue, flagVars,
                   m_transaction_mutex, m_functional_request_queue,
                   m_func_thread_active, stopVars>>

\* Lines 283-287: std::lock_guard lock(m_func_thread_mutex), then the second
\* look at m_func_thread_active.
StartFuncLock(c) ==
    /\ ~crashed
    /\ pc[c] = "rf_tlock"
    /\ m_func_thread_mutex = NoThread
    /\ IF m_func_thread_active
       THEN /\ pc' = [pc EXCEPT ![c] = "rf_enq"]
            /\ UNCHANGED m_func_thread_mutex
       ELSE /\ pc' = [pc EXCEPT ![c] = "rf_join"]
            /\ m_func_thread_mutex' = c
    /\ UNCHANGED <<stopFrame, m_abort_flag, m_request_queue, flagVars,
                   m_transaction_mutex, m_functional_request_queue,
                   m_func_thread_active, m_phys_thread_mutex, m_communicator>>

\* Lines 289-294: join the previous functional worker, set the flag, start a
\* new worker and release the lock.
StartFuncJoin(c) ==
    /\ ~crashed
    /\ pc[c] = "rf_join"
    /\ pc[FuncWorker] \in {"f_none", "f_done"}
    /\ m_func_thread_active' = TRUE
    /\ m_func_thread_mutex' = NoThread
    /\ pc' = [pc EXCEPT ![c] = "rf_enq", ![FuncWorker] = "f_loop"]
    /\ UNCHANGED <<stopFrame, m_abort_flag, m_request_queue, flagVars,
                   m_transaction_mutex, m_functional_request_queue,
                   m_phys_thread_mutex, m_communicator>>

\* Service::~Service, line 31: m_service_is_running.exchange(false); the body
\* runs only when the flag was set.
DtorBegin(c) ==
    /\ ~crashed
    /\ pc[c] = "idle"
    /\ m_communicator = "open"
    /\ m_service_is_running' = FALSE
    /\ pc' = [pc EXCEPT ![c] = IF m_service_is_running THEN "dt_abort"
                               ELSE "dt_destroyed"]
    /\ UNCHANGED <<stopFrame, m_abort_flag, m_request_queue,
                   m_phys_thread_active, m_keep_alive_active,
                   m_transaction_mutex, m_functional_request_queue,
                   m_func_thread_active, stopVars>>

\* Line 33: abort() (lines 455-464) stops the physical and the functional
\* transaction the two pointers hold, each under its pointer lock.
DtorAbort(c) ==
    /\ ~crashed
    /\ pc[c] = "dt_abort"
    /\ m_transaction_pointer_mutex = NoThread
    /\ m_functional_pointer_mutex = NoThread
    /\ m_abort_flag' = m_abort_flag \cup
                          ({m_transaction, m_functional_transaction} \ {NoTx})
    /\ pc' = [pc EXCEPT ![c] = "dt_ka"]
    /\ UNCHANGED <<stopFrame, m_request_queue, flagVars, m_transaction_mutex,
                   m_functional_request_queue, m_func_thread_active, stopVars>>

\* Line 35, stopKeepAlive() lines 475-476: m_keep_alive_active.exchange(false)
\* and the early return when it was clear; otherwise notify the thread.
DtorStopKeepAlive(c) ==
    /\ ~crashed
    /\ pc[c] = "dt_ka"
    /\ m_keep_alive_active' = FALSE
    /\ pc' = [pc EXCEPT ![c] = IF m_keep_alive_active THEN "dt_ka_join"
                               ELSE "dt_phys"]
    /\ UNCHANGED <<stopFrame, m_abort_flag, m_request_queue,
                   m_phys_thread_active, m_service_is_running,
                   m_transaction_mutex, m_functional_request_queue,
                   m_func_thread_active, stopVars>>

\* stopKeepAlive() lines 477-479: join() returns once keepAliveThreadFunc has
\* returned.
DtorJoinKeepAlive(c) ==
    /\ ~crashed
    /\ pc[c] = "dt_ka_join"
    /\ pc[KeepAlive] = "ka_done"
    /\ pc' = [pc EXCEPT ![c] = "dt_phys", ![KeepAlive] = "ka_none"]
    /\ UNCHANGED <<stopFrame, m_abort_flag, m_request_queue, flagVars,
                   m_transaction_mutex, m_functional_request_queue,
                   m_func_thread_active, stopVars>>

\* Line 36, stopPhysicalProcessingThread() lines 265-268:
\* m_phys_thread_active.exchange(false) and the early return when it was
\* clear; otherwise the empty request that unblocks the worker is enqueued.
DtorStopPhys(c) ==
    /\ ~crashed
    /\ pc[c] = "dt_phys"
    /\ m_phys_thread_active' = FALSE
    /\ IF m_phys_thread_active
       THEN /\ m_request_queue' = Append(m_request_queue, 0)
            /\ pc' = [pc EXCEPT ![c] = "dt_phys_lock"]
       ELSE /\ UNCHANGED m_request_queue
            /\ pc' = [pc EXCEPT ![c] = "dt_func"]
    /\ UNCHANGED <<stopFrame, m_abort_flag, m_service_is_running,
                   m_keep_alive_active, m_transaction_mutex,
                   m_functional_request_queue, m_func_thread_active, stopVars>>

\* stopPhysicalProcessingThread() line 270: lock m_phys_thread_mutex.
DtorPhysLock(c) ==
    /\ ~crashed
    /\ pc[c] = "dt_phys_lock"
    /\ m_phys_thread_mutex = NoThread
    /\ m_phys_thread_mutex' = c
    /\ pc' = [pc EXCEPT ![c] = "dt_phys_join"]
    /\ UNCHANGED <<stopFrame, m_abort_flag, m_request_queue, flagVars,
                   m_transaction_mutex, m_functional_request_queue,
                   m_func_thread_active, m_func_thread_mutex, m_communicator>>

\* stopPhysicalProcessingThread() lines 271-274: join() returns once the
\* worker function has returned; the lock is released.
DtorPhysJoin(c) ==
    /\ ~crashed
    /\ pc[c] = "dt_phys_join"
    /\ pc[Worker] \in {"w_none", "w_done"}
    /\ m_phys_thread_mutex' = NoThread
    /\ pc' = [pc EXCEPT ![c] = "dt_func", ![Worker] = "w_none"]
    /\ UNCHANGED <<stopFrame, m_abort_flag, m_request_queue, flagVars,
                   m_transaction_mutex, m_functional_request_queue,
                   m_func_thread_active, m_func_thread_mutex, m_communicator>>

\* Line 37, stopFunctionalProcessingThread() lines 298-301.
DtorStopFunc(c) ==
    /\ ~crashed
    /\ pc[c] = "dt_func"
    /\ m_func_thread_active' = FALSE
    /\ IF m_func_thread_active
       THEN /\ m_functional_request_queue' =
                  Append(m_functional_request_queue, 0)
            /\ pc' = [pc EXCEPT ![c] = "dt_func_lock"]
       ELSE /\ UNCHANGED m_functional_request_queue
            /\ pc' = [pc EXCEPT ![c] = "dt_guard"]
    /\ UNCHANGED <<stopFrame, m_abort_flag, m_request_queue, flagVars,
                   m_transaction_mutex, stopVars>>

\* stopFunctionalProcessingThread() line 303: lock m_func_thread_mutex.
DtorFuncLock(c) ==
    /\ ~crashed
    /\ pc[c] = "dt_func_lock"
    /\ m_func_thread_mutex = NoThread
    /\ m_func_thread_mutex' = c
    /\ pc' = [pc EXCEPT ![c] = "dt_func_join"]
    /\ UNCHANGED <<stopFrame, m_abort_flag, m_request_queue, flagVars,
                   m_transaction_mutex, m_functional_request_queue,
                   m_func_thread_active, m_phys_thread_mutex, m_communicator>>

\* stopFunctionalProcessingThread() lines 304-307: join, release the lock.
DtorFuncJoin(c) ==
    /\ ~crashed
    /\ pc[c] = "dt_func_join"
    /\ pc[FuncWorker] \in {"f_none", "f_done"}
    /\ m_func_thread_mutex' = NoThread
    /\ pc' = [pc EXCEPT ![c] = "dt_guard", ![FuncWorker] = "f_none"]
    /\ UNCHANGED <<stopFrame, m_abort_flag, m_request_queue, flagVars,
                   m_transaction_mutex, m_functional_request_queue,
                   m_func_thread_active, m_phys_thread_mutex, m_communicator>>

\* A destructor that would go on without the final lock.
DtorFinalGuard_Skipped(c) ==
    UNCHANGED m_transaction_mutex

\* Line 44: std::lock_guard<std::mutex> final_guard(m_transaction_mutex).
DtorFinalGuard(c) ==
    TxMutexAcquire(c)

\* Line 44: the destructor takes the transaction mutex.
DtorGuard(c) ==
    /\ ~crashed
    /\ pc[c] = "dt_guard"
    /\ DtorFinalGuard(c)
    /\ pc' = [pc EXCEPT ![c] = "dt_shutdown"]
    /\ UNCHANGED <<stopFrame, m_abort_flag, m_request_queue, flagVars,
                   m_functional_request_queue, m_func_thread_active, stopVars>>

\* Lines 46-50: closeLog() and shutdown() on the Communicator, then the scope
\* of final_guard ends.
DtorShutdown(c) ==
    /\ ~crashed
    /\ pc[c] = "dt_shutdown"
    /\ m_communicator' = "shutdown"
    /\ m_transaction_mutex' = NoThread
    /\ pc' = [pc EXCEPT ![c] = "dt_destroyed"]
    /\ UNCHANGED <<stopFrame, m_abort_flag, m_request_queue, flagVars,
                   m_functional_request_queue, m_func_thread_active,
                   m_phys_thread_mutex, m_func_thread_mutex>>

\* The destructor has stopped the keep-alive thread and both workers.
ThreadsStopped(c) == pc[c] \in {"dt_guard", "dt_shutdown"}

NextStop ==
    \/ (pc[Worker] = "w_none" /\ RequestAsyncCheck("c2"))
    \/ RequestAsyncStart("c2")
    \/ RequestAsyncEnqueue("c2")
    \/ (pc[FuncWorker] = "f_none" /\ RequestFunctionalCheck("c2"))
    \/ RequestFunctionalStart("c2")
    \/ RequestFunctionalEnqueue("c2")
    \/ StartKeepAlive("c2")
    \/ (ThreadsStopped("c2") /\ RequestSync("c1"))
    \/ \E t \in ExecThreads : ExCreate(t)
    \/ \E t \in ExecThreads : ExLock(t)
    \/ \E t \in ExecThreads : ExRun(t)
    \/ \E t \in ExecThreads : ExReset(t)
    \/ WorkerLoop
    \/ WorkerWait
    \/ WorkerPost
    \/ WorkerEnqueue
    \/ WorkerExit
    \/ FuncWorkerWait
    \/ FuncPtrLock
    \/ FuncMake
    \/ FuncLock
    \/ FuncSend
    \/ FuncFinish
    \/ FuncResetLock
    \/ FuncResetUnlock
    \/ FuncWorkerExit
    \/ KeepAliveLoop
    \/ KeepAliveLock
    \/ KeepAliveSend
    \/ Tick
    \/ DtorBegin("c2")
    \/ DtorAbort("c2")
    \/ DtorStopKeepAlive("c2")
    \/ DtorJoinKeepAlive("c2")
    \/ DtorStopPhys("c2")
    \/ DtorPhysLock("c2")
    \/ DtorPhysJoin("c2")
    \/ DtorStopFunc("c2")
    \/ DtorFuncLock("c2")
    \/ DtorFuncJoin("c2")
    \/ DtorGuard("c2")
    \/ DtorShutdown("c2")

\* A caller that starts each pipeline once and the keep-alive, then destroys
\* the Service; the two workers and the keep-alive thread; and a second
\* caller whose request_sync arrives when the destructor has stopped the
\* threads and goes for the transaction mutex.
SpecStop == InitKa /\ [][NextStop]_vars

\* C12: when the destructor shuts the Communicator down, the running flag is
\* clear, the keep-alive thread and both workers have been stopped, the
\* destructor owns the transaction mutex, and no thread is inside a
\* transaction's execute() or sending a Tester-Present.
C12_ShutdownAfterEverythingStopped ==
    [][\A c \in Callers :
          (pc[c] = "dt_shutdown" /\ pc'[c] = "dt_destroyed") =>
             /\ ~m_service_is_running
             /\ ~m_keep_alive_active /\ pc[KeepAlive] = "ka_none"
             /\ ~m_phys_thread_active /\ pc[Worker] \in {"w_none", "w_done"}
             /\ ~m_func_thread_active /\ pc[FuncWorker] \in {"f_none", "f_done"}
             /\ m_transaction_mutex = c
             /\ \A t \in Threads : ~Executing(t)
             /\ pc[KeepAlive] # "ka_send"]_vars

\* The destructor has joined the keep-alive thread and both workers and
\* waits for the transaction mutex while a request_sync caller is inside
\* execute().
C12_Witness ==
    /\ pc["c2"] = "dt_guard"
    /\ pc["c1"] = "ex_run" /\ m_transaction_mutex = "c1"
    /\ pc[KeepAlive] = "ka_none" /\ ~m_keep_alive_active
    /\ pc[Worker] = "w_none" /\ m_request_queue # <<>>
    /\ pc[FuncWorker] = "f_none" /\ m_functional_request_queue # <<>>

NextRestart ==
    \/ RequestAsyncCheck("c1")
    \/ StartPhysFastPath("c1")
    \/ StartPhysLock("c1")
    \/ StartPhysJoin("c1")
    \/ RequestAsyncEnqueue("c1")
    \/ ReadResponse("c1")
    \/ ExCreate(Worker)
    \/ ExLock(Worker)
    \/ ExRun(Worker)
    \/ ExReset(Worker)
    \/ WorkerLoop
    \/ WorkerWait
    \/ WorkerPost
    \/ WorkerEnqueue
    \/ WorkerExit
    \/ DtorBegin("c2")
    \/ DtorAbort("c2")
    \/ DtorStopKeepAlive("c2")
    \/ DtorStopPhys("c2")
    \/ DtorPhysLock("c2")
    \/ DtorPhysJoin("c2")
    \/ DtorStopFunc("c2")
    \/ DtorGuard("c2")
    \/ DtorShutdown("c2")

\* A caller using request_async and read_response, the physical worker, and
\* a second caller that stops the worker and shuts the Service down; the
\* start of the worker is taken lock by lock.
SpecRestart == InitSvc /\ [][NextRestart]_vars

\* The worker is inside executeTransaction.
WorkerInTransaction ==
    pc[Worker] \in {"ex_create", "ex_lock", "ex_run", "ex_reset"}

\* Caller c is inside request_async and cannot go on before the worker
\* function has returned: it is in join() itself, or it waits for
\* m_phys_thread_mutex whose owner is in join().
WaitsForWorker(c) ==
    \/ pc[c] = "ra_join"
    \/ /\ pc[c] = "ra_tlock"
       /\ m_phys_thread_mutex # NoThread
       /\ pc[m_phys_thread_mutex] \in {"ra_join", "dt_phys_join"}

\* C19: a caller inside request_async never waits for a worker thread that
\* is still executing a transaction.
C19_RequestAsyncNeverWaitsForWorker ==
    \A c \in Callers : ~(WaitsForWorker(c) /\ WorkerInTransaction)

\* ------------------------------------------------ security access sequence
\* Everything outside the security access sequence.
secFrame == <<svcVars, txVars, ptrVars, funcVars, stopVars, svc_m_context,
              fifoVars, secCfgVars, funcTxVars, stopCalled>>

\* uint8_t arithmetic.
U8(n) == n % 256

SID_SECURITY_ACCESS == 39
SID_SECURITY_ACCESS_RESPONSE == 103
Ok == "Ok"

\* Security levels a caller passes.
SecurityLevels == {1, 2, 128}
\* Result codes requestSync and calculateKey return.
SecCodes == {Ok, "TimeoutA", "NegativeResponse"}
\* Response payloads requestSync hands back, up to MaxSeedResponse bytes.
MaxSeedResponse == 3
SecBytes == {SID_SECURITY_ACCESS_RESPONSE, 127, 1}
SecPayloads ==
    UNION {[1..n -> SecBytes] : n \in 0..MaxSeedResponse}
\* Keys calculateKey produces.
Keys == {<<>>, <<170>>}

\* A validation that only looks at the service identifier.
InvalidSeedResponse_SidOnly(p) ==
    Len(p) < 1 \/ p[1] # SID_SECURITY_ACCESS_RESPONSE

\* Lines 178-186: the response is shorter than three bytes, does not start
\* with 0x67, or carries no seed byte after the sub-function.
InvalidSeedResponse(p) ==
    \/ Len(p) < 3 \/ p[1] # SID_SECURITY_ACCESS_RESPONSE
    \/ SubSeq(p, 3, Len(p)) = <<>>

\* A key calculation whose failure is not looked at.
KeyCalculationFailed_Ignored(code) == FALSE

\* Line 192: ret != VCI_UDS_RESULT_OK after calculateKey.
KeyCalculationFailed(code) == code # Ok

SecStep(step, code, payload) == [step |-> step, code |-> code, payload |-> payload]

\* Service::securityAccess (lines 147-161): the SecurityProvider is built from
\* the configuration; when its constructor throws the call returns
\* CONFIG_FAILED, otherwise the sequence starts.
securityAccess(level, providerBuilt) ==
    /\ sa_pc = "sa_idle"
    /\ security_level' = level
    /\ sa_log' = <<>>
    /\ seed_response_payload' = <<>>
    /\ key' = <<>>
    /\ final_response' = <<>>
    /\ IF providerBuilt
       THEN /\ sa_pc' = "sa_seed"
            /\ ret' = "none"
       ELSE /\ sa_pc' = "sa_done"
            /\ ret' = "ConfigFailed"
    /\ UNCHANGED secFrame

\* Lines 168-186: the seed request {0x27, 2*level-1} goes out through
\* requestSync, which returns `code` and `payload`; a failed request and an
\* invalid seed response end the sequence.
requestSeedReturns(code, payload) ==
    /\ sa_pc = "sa_seed"
    /\ sa_log' = Append(sa_log,
                    SecStep("request", code,
                            <<SID_SECURITY_ACCESS, U8(2 * security_level - 1)>>))
    /\ seed_response_payload' = payload
    /\ IF code # Ok
       THEN /\ final_response' = payload
            /\ ret' = code
            /\ sa_pc' = "sa_done"
       ELSE IF InvalidSeedResponse(payload)
       THEN /\ ret' = "SecurityInvalidSeed"
            /\ sa_pc' = "sa_done"
            /\ UNCHANGED final_response
       ELSE /\ ret' = code
            /\ sa_pc' = "sa_calc"
            /\ UNCHANGED final_response
    /\ UNCHANGED <<security_level, key>>

\* The seed request with everything outside the sequence left alone.
requestSeed(code, payload) ==
    /\ requestSeedReturns(code, payload)
    /\ UNCHANGED secFrame

\* Lines 189-195: provider.calculateKey(level, seed, key) returns `code` and
\* the key `k`; a failure ends the sequence.
calculateKey(code, k) ==
    /\ sa_pc = "sa_calc"
    /\ sa_log' = Append(sa_log,
                    SecStep("calculateKey", code,
                            SubSeq(seed_response_payload, 3,
                                   Len(seed_response_payload))))
    /\ ret' = code
    /\ IF KeyCalculationFailed(code)
       THEN /\ sa_pc' = "sa_done"
            /\ UNCHANGED key
       ELSE /\ sa_pc' = "sa_key"
            /\ key' = k
    /\ UNCHANGED <<security_level, seed_response_payload, final_response>>
    /\ UNCHANGED secFrame

\* Lines 198-209: the send-key request {0x27, 2*level, key...} goes out through
\* requestSync; its code is the result of the sequence.
sendKeyReturns(code, payload) ==
    /\ sa_pc = "sa_key"
    /\ sa_log' = Append(sa_log,
                    SecStep("request", code,
                            <<SID_SECURITY_ACCESS, U8(2 * security_level)>>
                               \o key))
    /\ final_response' = payload
    /\ ret' = code
    /\ sa_pc' = "sa_done"
    /\ UNCHANGED <<security_level, seed_response_payload, key>>

\* The send-key request with everything outside the sequence left alone.
sendKey(code, payload) ==
    /\ sendKeyReturns(code, payload)
    /\ UNCHANGED secFrame

\* The caller has the result and may call again.
securityAccessReturns ==
    /\ sa_pc = "sa_done"
    /\ sa_pc' = "sa_idle"
    /\ UNCHANGED <<security_level, seed_response_payload, key, final_response,
                   ret, sa_log>>
    /\ UNCHANGED secFrame

NextSec ==
    \/ \E level \in SecurityLevels, providerBuilt \in BOOLEAN :
          securityAccess(level, providerBuilt)
    \/ \E code \in SecCodes, payload \in SecPayloads : requestSeed(code, payload)
    \/ \E code \in SecCodes, k \in Keys : calculateKey(code, k)
    \/ \E code \in SecCodes, payload \in SecPayloads : sendKey(code, payload)
    \/ securityAccessReturns

\* A caller using security_access, with every result the two requests and
\* the key calculation can have.
SpecSec == InitSvc /\ [][NextSec]_vars

\* The seed request succeeded with a response [0x67, subfunc] and no seed
\* byte.
ZeroSeedResponse ==
    /\ Len(sa_log) >= 1
    /\ sa_log[1].code = Ok
    /\ Len(seed_response_payload) = 2
    /\ seed_response_payload[1] = SID_SECURITY_ACCESS_RESPONSE

\* C14: after a successful seed request whose response [0x67, subfunc] carries
\* no seed byte, no key is calculated, no send-key request is sent and
\* security_access returns SecurityInvalidSeed.
C14_ZeroSeedIsInvalid ==
    ZeroSeedResponse =>
        /\ Len(sa_log) = 1
        /\ sa_pc \in {"sa_done", "sa_idle"}
        /\ ret = "SecurityInvalidSeed"

\* security_access has returned after a response [0x67, 1] to the seed
\* request of level 1.
C14_Witness ==
    /\ ZeroSeedResponse
    /\ sa_pc = "sa_done"
    /\ security_level = 1
    /\ seed_response_payload = <<SID_SECURITY_ACCESS_RESPONSE, 1>>

\* The steps run are a seed request, then a key calculation, then a send-key
\* request, each at most once.
SecInOrder ==
    /\ Len(sa_log) <= 3
    /\ \A i \in 1..Len(sa_log) :
          sa_log[i].step = IF i = 2 THEN "calculateKey" ELSE "request"
    /\ Len(sa_log) >= 1 =>
          sa_log[1].payload = <<SID_SECURITY_ACCESS, U8(2 * security_level - 1)>>
    /\ Len(sa_log) = 3 =>
          sa_log[3].payload =
             <<SID_SECURITY_ACCESS, U8(2 * security_level)>> \o key

\* C15 as stated: the steps run in order, at most once each; once the seed
\* request was made, a failed seed request or key calculation ends the
\* sequence with that step's code, and in every other case the result is the
\* code of the send-key request.
C15_ResultIsFailedStepOrSendKey ==
    /\ SecInOrder
    /\ (sa_pc = "sa_done" /\ Len(sa_log) >= 1) =>
          IF sa_log[1].code # Ok
          THEN Len(sa_log) = 1 /\ ret = sa_log[1].code
          ELSE IF Len(sa_log) >= 2 /\ sa_log[2].code # Ok
          THEN Len(sa_log) = 2 /\ ret = sa_log[2].code
          ELSE Len(sa_log) = 3 /\ ret = sa_log[3].code

\* C15: the steps run in order, at most once each.  Without a
\* SecurityProvider nothing runs and the result is ConfigFailed; a failed
\* seed request ends the sequence with its code; a successful seed request
\* with an invalid seed response ends it with SecurityInvalidSeed; a failed
\* key calculation ends it with its code; otherwise the result is the code of
\* the send-key request.
C15_ResultIsFirstFailureOrSendKey ==
    /\ SecInOrder
    /\ sa_pc = "sa_done" =>
          IF Len(sa_log) = 0
          THEN ret = "ConfigFailed"
          ELSE IF sa_log[1].code # Ok
          THEN Len(sa_log) = 1 /\ ret = sa_log[1].code
          ELSE IF InvalidSeedResponse(seed_response_payload)
          THEN Len(sa_log) = 1 /\ ret = "SecurityInvalidSeed"
          ELSE IF sa_log[2].code # Ok
          THEN Len(sa_log) = 2 /\ ret = sa_log[2].code
          ELSE Len(sa_log) = 3 /\ ret = sa_log[3].code

\* security_access has returned the failure code of the send-key request
\* after a successful seed request and key calculation.
C15_Witness ==
    /\ sa_pc = "sa_done"
    /\ Len(sa_log) = 3
    /\ sa_log[2].code = Ok
    /\ sa_log[3].code = "NegativeResponse"
    /\ ret = "NegativeResponse"

\* ------------------------------------------- session context and snapshot
\* Session contexts set_uds_config can install: they differ in every timeout
\* and in max_nrc78_count.
CfgContexts ==
    {[can_type |-> "CLASSIC", n_as_timeout |-> 12, n_bs_timeout |-> 12,
      n_cr_timeout |-> 5, n_ar_timeout |-> 15, max_nrc78_count |-> 0,
      block_size |-> 0, st_min |-> 0],
     [can_type |-> "CLASSIC", n_as_timeout |-> 10, n_bs_timeout |-> 9,
      n_cr_timeout |-> 4, n_ar_timeout |-> 11, max_nrc78_count |-> 1,
      block_size |-> 0, st_min |-> 0]}

\* The request of the transactions of this scenario: one Single Frame.
CfgPayload == <<1, 2>>

\* Everything but the session context and the Transaction.
cfgFrame == <<svcVars, ptrVars, funcVars, stopVars, secVars, fifoVars,
              secCfgVars, funcTxVars, stopCalled>>

\* A snapshot that would be the context of the transaction before.
getContext_Previous == m_context

\* Service::getContext (lines 142-145): a copy of m_context, taken under the
\* shared lock.
getContext == svc_m_context

\* Service::setUdsConfig (lines 79-100), under the unique lock: the parsed
\* and validated temp_context replaces m_context; a parse error, no matching
\* command or a failed validation leave it alone.
setUdsConfig(parse_result, temp_context, valid) ==
    /\ svc_m_context' =
          IF parse_result > 0 /\ valid THEN temp_context ELSE svc_m_context
    /\ UNCHANGED <<cfgFrame, txVars>>

\* Service::executeTransaction, lines 396-404, once the transaction before
\* has returned: the context snapshot is taken and a new Transaction is built
\* from it.
executeTransaction_create ==
    /\ at = "done"
    /\ m_context' = getContext
    /\ m_request_payload' = CfgPayload
    /\ m_state' = "START"
    /\ m_result' = [success |-> FALSE, result_code |-> "InternalError",
                    response_payload |-> <<>>]
    /\ m_nrc78_count' = 0
    /\ m_segmenter' = NoSegmenter
    /\ m_fc_block_size_from_ecu' = 0
    /\ m_fc_frames_sent_in_block' = 0
    /\ m_fc_separation_time_from_ecu' = 0
    /\ m_reassembler' = NoReassembly
    /\ at' = "new"
    /\ elapsed' = 0
    /\ timeout_ms' = 0
    /\ chunk' = 0
    /\ frame_opt' = nullopt
    /\ sent' = <<>>
    /\ sinceArmed' = 0
    /\ stopSeen' = NoStop
    /\ m_abort_flag' = m_abort_flag \ {TxObj}
    /\ UNCHANGED <<svcRest, extVars>>

InitCfg ==
    /\ InitCommon
    /\ tester_present_interval_ms = 0
    /\ svc_m_context \in CfgContexts
    /\ TxConstructed(svc_m_context, CfgPayload)

NextCfg ==
    \/ \E parse_result \in {-1, 0, 1}, temp_context \in CfgContexts,
          valid \in BOOLEAN : setUdsConfig(parse_result, temp_context, valid)
    \/ executeTransaction_create
    \/ execute_begin
    \/ handle_start
    \/ \E ok \in BOOLEAN : handle_send_single_frame(ok)
    \/ waitForFrame_call
    \/ waitForFrame_poll
    \/ provider_timeout
    \/ \E f \in RxFrames, d \in {0, chunk} : provider_frame(f, d)
    \/ \E ok \in BOOLEAN : handle_wait_for_response(ok)
    \/ handle_receive_consecutive_frames

\* Transactions with a Single Frame request executed one after the other,
\* while set_uds_config replaces the session context at any moment.
SpecCfg == InitCfg /\ [][NextCfg]_vars

\* C16: the context of a transaction is the session context at the moment
\* the transaction was created, and no step changes it until the next
\* transaction is created, whatever set_uds_config does meanwhile.
C16_TransactionKeepsSnapshot ==
    [][IF at = "done" /\ at' = "new"
       THEN m_context' = svc_m_context
       ELSE m_context' = m_context]_vars

\* A transaction waits for its response with the timeout of its snapshot
\* while the session context has been replaced by one with another timeout.
C16_Witness ==
    /\ at = "prov"
    /\ m_state = "WAIT_FOR_RESPONSE"
    /\ svc_m_context # m_context
    /\ svc_m_context.n_as_timeout # m_context.n_as_timeout
    /\ timeout_ms = m_context.n_as_timeout

\* ------------------------------------------------- single-frame requests
\* Session contexts of a classic CAN and of a CAN FD channel.
SfConfigs ==
    [can_type : {"CLASSIC", "FD"}, n_as_timeout : {12}, n_bs_timeout : {12},
     n_cr_timeout : {5}, n_ar_timeout : {15}, max_nrc78_count : {0},
     block_size : {0}, st_min : {0}]

\* Request lengths around the two single-frame capacities.
SfRequestSizes == {1, 7, 8, 62, 63}

InitSf ==
    /\ InitCommon
    /\ tester_present_interval_ms = 0
    /\ \E cfg \in SfConfigs, n \in SfRequestSizes :
          TxConstructed(cfg, [i \in 1..n |-> i])
    /\ svc_m_context = m_context

\* execute() for requests on both sides of the single-frame capacity; a
\* request that needs segmentation is followed up to SEND_FIRST_FRAME.
NextSf ==
    \/ execute_begin
    \/ stopExecution
    \/ execute_abort
    \/ handle_start
    \/ \E ok \in BOOLEAN : handle_send_single_frame(ok)
    \/ waitForFrame_call
    \/ waitForFrame_poll
    \/ provider_timeout
    \/ \E f \in RxFrames, d \in {0, chunk} : provider_frame(f, d)
    \/ \E ok \in BOOLEAN : handle_wait_for_response(ok)
    \/ handle_receive_consecutive_frames

SpecSf == InitSf /\ [][NextSf]_vars

\* The single-frame capacity of the channel of the transaction.
SingleFrameCapacity == IF m_context.can_type = "CLASSIC" THEN 7 ELSE 62
FitsSingleFrame == Len(m_request_payload) <= SingleFrameCapacity
TheSingleFrame == [pci_type |-> "SF", payload |-> m_request_payload]
SegmentationStates == {"SEND_FIRST_FRAME", "WAIT_FOR_FC",
                       "SEND_CONSECUTIVE_FRAMES"}
SingleFramesSent(frames) ==
    Cardinality({i \in 1..Len(frames) : frames[i].pci_type = "SF"})

\* C18 as stated: a request that fits a Single Frame always leaves START for
\* SEND_SINGLE_FRAME and SEND_SINGLE_FRAME for WAIT_FOR_RESPONSE, with
\* exactly one Single Frame sent, and never enters a segmentation state.
C18_SingleFrameAlwaysReachesWait ==
    [][FitsSingleFrame =>
         /\ m_state' \notin SegmentationStates
         /\ (m_state = "START" /\ m_state' # "START")
               => m_state' = "SEND_SINGLE_FRAME"
         /\ (m_state = "SEND_SINGLE_FRAME" /\ m_state' # "SEND_SINGLE_FRAME")
               => /\ m_state' = "WAIT_FOR_RESPONSE"
                  /\ sent' = <<TheSingleFrame>>]_vars

\* C18, amended: a request that fits a Single Frame never enters a
\* segmentation state and never has more than one Single Frame handed to
\* the sender.  Unless it is aborted first, it leaves START for
\* SEND_SINGLE_FRAME and hands the whole request to the sender as one Single
\* Frame; it then enters WAIT_FOR_RESPONSE directly, or fails with SendFailed
\* when the sender refuses the frame.  An abort seen before either step ends
\* it with Aborted and no further frame.
C18_SingleFramePath ==
    [][FitsSingleFrame =>
         /\ m_state' \notin SegmentationStates
         /\ SingleFramesSent(sent') <= 1
         /\ m_state' = "WAIT_FOR_RESPONSE" => sent'[1] = TheSingleFrame
         /\ (m_state = "START" /\ m_state' # "START")
               => \/ m_state' = "SEND_SINGLE_FRAME" /\ sent' = <<>>
                  \/ /\ aborted
                     /\ m_state' = "FAILED"
                     /\ m_result'.result_code = "Aborted"
                     /\ sent' = <<>>
         /\ (m_state = "SEND_SINGLE_FRAME" /\ m_state' # "SEND_SINGLE_FRAME")
               => \/ /\ ~aborted
                     /\ sent' = <<TheSingleFrame>>
                     /\ \/ m_state' = "WAIT_FOR_RESPONSE"
                        \/ /\ m_state' = "FAILED"
                           /\ m_result'.result_code = "SendFailed"
                  \/ /\ aborted
                     /\ m_state' = "FAILED"
                     /\ m_result'.result_code = "Aborted"
                     /\ sent' = <<>>]_vars

\* A CAN FD request of exactly 62 bytes waits for its response after one
\* Single Frame.
C18_Witness ==
    /\ m_context.can_type = "FD"
    /\ Len(m_request_payload) = 62
    /\ m_state = "WAIT_FOR_RESPONSE"
    /\ sent = <<TheSingleFrame>>

\* ------------------------------------------- order of the response queue
\* m_response_queue is a moodycamel::BlockingConcurrentQueue (line 451),
\* filled without a producer token (line 335): the entries one thread
\* enqueued are dequeued in the order that thread enqueued them, while
\* entries of different threads are dequeued in no fixed order.
\* response_producer[i] is the producer of m_response_queue[i], and
\* worker_thread the producer the worker thread of the moment enqueues as.
fifoFrame == <<txVars, ptrVars, funcVars, stopVars, secVars, svc_m_context,
               secCfgVars, funcTxVars, stopCalled>>

RemoveAt(s, i) == SubSeq(s, 1, i - 1) \o SubSeq(s, i + 1, Len(s))

\* The entries a dequeue can deliver: the oldest entry of each producer.
DequeueCandidates ==
    {i \in 1..Len(m_response_queue) :
        \A j \in 1..(i - 1) : response_producer[j] # response_producer[i]}

\* startPhysicalProcessingThread (lines 244-262), called at line 225, with
\* the thread it starts: the first worker, or after a worker that has left
\* (line 339) a new std::thread, which the queue takes for the producer of
\* before when the thread id is used again and for a new producer otherwise.
RequestAsyncStartThread(c) ==
    /\ ~crashed
    /\ pc[c] = "ra_start"
    /\ IF m_phys_thread_active
       THEN /\ pc' = [pc EXCEPT ![c] = "ra_enq"]
            /\ UNCHANGED worker_thread
       ELSE /\ pc[Worker] \in {"w_none", "w_done"}
            /\ pc' = [pc EXCEPT ![c] = "ra_enq", ![Worker] = "w_loop"]
            /\ \E producer \in {worker_thread, worker_thread + 1} :
                  /\ producer > 0
                  /\ worker_thread' = producer
    /\ m_phys_thread_active' = TRUE
    /\ UNCHANGED <<fifoFrame, response_producer, read_ret, returned>>
    /\ UNCHANGED <<req, res, execTx, sentFrames, dequeued, objVars, queueVars,
                   m_service_is_running, m_keep_alive_active,
                   tester_present_interval_ms, m_transaction_mutex, clockVars,
                   nextId, ub>>

\* Lines 334-336 on the worker thread of the moment.
WorkerEnqueueFrom ==
    /\ ~crashed
    /\ pc[Worker] = "w_enq"
    /\ IF res[Worker].code # "Aborted"
       THEN /\ m_response_queue' = Append(m_response_queue, res[Worker])
            /\ response_producer' = Append(response_producer, worker_thread)
       ELSE UNCHANGED <<m_response_queue, response_producer>>
    /\ req' = [req EXCEPT ![Worker] = 0]
    /\ res' = [res EXCEPT ![Worker] = NoRes]
    /\ pc' = [pc EXCEPT ![Worker] = "w_loop"]
    /\ UNCHANGED <<fifoFrame, worker_thread, read_ret, returned>>
    /\ UNCHANGED <<execTx, sentFrames, dequeued, objVars, m_request_queue,
                   flagVars, m_transaction_mutex, clockVars, nextId, ub>>

\* Service::readResponse is entered (line 422) and waits in
\* wait_dequeue_timed (line 424).
ReadResponseCall(c) ==
    /\ ~crashed
    /\ pc[c] = "idle"
    /\ pc' = [pc EXCEPT ![c] = "rr_wait"]
    /\ read_ret' = "none"
    /\ UNCHANGED <<fifoFrame, response_producer, worker_thread, returned>>
    /\ UNCHANGED <<req, res, execTx, sentFrames, dequeued, objVars, queueVars,
                   flagVars, m_transaction_mutex, clockVars, nextId, ub>>

\* Lines 424-426: the dequeue delivers an entry; its payload and result code
\* are returned.
ReadResponseDequeue(c) ==
    /\ ~crashed
    /\ pc[c] = "rr_wait"
    /\ \E i \in DequeueCandidates :
          /\ read_ret' = m_response_queue[i].code
          /\ returned' = Append(returned, m_response_queue[i].payload)
          /\ m_response_queue' = RemoveAt(m_response_queue, i)
          /\ response_producer' = RemoveAt(response_producer, i)
    /\ pc' = [pc EXCEPT ![c] = "idle"]
    /\ UNCHANGED <<fifoFrame, worker_thread>>
    /\ UNCHANGED <<req, res, execTx, sentFrames, dequeued, objVars,
                   m_request_queue, flagVars, m_transaction_mutex, clockVars,
                   nextId, ub>>

\* Line 428: the queue stayed empty for timeout_ms.
ReadResponseTimeout(c) ==
    /\ ~crashed
    /\ pc[c] = "rr_wait"
    /\ m_response_queue = <<>>
    /\ read_ret' = "NoResponseInQueue"
    /\ pc' = [pc EXCEPT ![c] = "idle"]
    /\ UNCHANGED <<fifoFrame, response_producer, worker_thread, returned>>
    /\ UNCHANGED <<req, res, execTx, sentFrames, dequeued, objVars, queueVars,
                   flagVars, m_transaction_mutex, clockVars, nextId, ub>>

NextFifo ==
    \/ RequestAsyncCheck("c1")
    \/ RequestAsyncStartThread("c1")
    \/ RequestAsyncEnqueue("c1")
    \/ ReadResponseCall("c1")
    \/ ReadResponseDequeue("c1")
    \/ ReadResponseTimeout("c1")
    \/ ExCreate(Worker)
    \/ ExLock(Worker)
    \/ ExRun(Worker)
    \/ ExReset(Worker)
    \/ WorkerLoop
    \/ WorkerWait
    \/ WorkerPost
    \/ WorkerEnqueueFrom
    \/ WorkerExit

\* One caller thread using request_async and read_response, and the physical
\* worker, which leaves when its queue stays empty and is started again on
\* demand.
SpecFifo == InitSvc /\ [][NextFifo]_vars

\* C20: read_response returns the results of one caller's request_async
\* calls in the order in which the requests were accepted (request ids grow
\* in that order), and returns NoResponseInQueue only when the response
\* queue held no result.
C20_ResultsInAcceptanceOrder ==
    [][/\ returned' # returned
            => \A i \in 1..Len(returned) :
                  returned[i] < returned'[Len(returned')]
       /\ (read_ret' = "NoResponseInQueue" /\ read_ret # "NoResponseInQueue")
            => m_response_queue = <<>>]_vars

\* ------------------------------------------------ cancellation priority
TimeoutCodes == {"TimeoutBs", "TimeoutCr", "TimeoutA", "TimeoutP2Star"}

\* The places where a running transaction reads the abort flag and finds it
\* set: the top of the loop of execute(), a wait that returned no frame, the
\* loop of handle_send_consecutive_frames and its pacing wait.
ObservesAbort ==
    /\ aborted
    /\ \/ at = "loop"
       \/ at = "got" /\ frame_opt = nullopt
       \/ at = "cf" /\ ~isDone
       \/ at = "pace"

\* C21: a transaction that observes the abort flag ends FAILED(Aborted) in
\* that step, and no transaction whose abort flag is set ends with a timeout
\* code, even when the timeout of its wait has elapsed as well.
C21_AbortBeforeTimeout ==
    [][/\ ObservesAbort
            => /\ at' = "done"
               /\ m_state' = "FAILED"
               /\ m_result'.result_code = "Aborted"
       /\ (aborted /\ at # "done" /\ at' = "done")
            => m_result'.result_code \notin TimeoutCodes]_vars

\* A wait whose timeout had elapsed when the abort flag was read ended
\* Aborted.
C21_Witness ==
    /\ aborted
    /\ at = "done"
    /\ m_state = "FAILED"
    /\ m_result.result_code = "Aborted"
    /\ timeout_ms > 0
    /\ elapsed >= timeout_ms

\* ------------------------------------------------ security configuration
\* m_security_config is zero-initialized (line 70).
ZeroSecurityConfig == [algorithm |-> 0, parameters |-> 0]

\* Configurations set_security_config installs: an algorithm selector and
\* the parameters that belong to it.
SecurityConfigs == {[algorithm |-> n, parameters |-> n] : n \in {1, 2}}

secCfgFrame == <<txVars, ptrVars, funcVars, stopVars, svc_m_context, fifoVars,
                 funcTxVars, stopCalled,
                 req, res, execTx, sentFrames, dequeued, objVars, queueVars,
                 flagVars, m_transaction_mutex, clockVars, nextId, ub,
                 sa_pc, security_level, seed_response_payload,
                 final_response, ret, sa_log>>

\* Service::setSecurityConfig, lines 127-135: the command string is parsed
\* into temp_config; a parse error and a string without a security command
\* return without touching m_security_config.
setSecurityConfig_parse(c, parse_result, parsed) ==
    /\ pc[c] = "idle"
    /\ IF parse_result > 0
       THEN /\ temp_config' = parsed
            /\ pc' = [pc EXCEPT ![c] = "ssc_algorithm"]
       ELSE UNCHANGED <<temp_config, pc>>
    /\ UNCHANGED <<m_security_config, provider_config, key, secCfgFrame>>

\* Line 137, m_security_config = temp_config: the struct is copied member by
\* member, and no lock is held.
setSecurityConfig_assign_algorithm(c) ==
    /\ pc[c] = "ssc_algorithm"
    /\ m_security_config' =
          [m_security_config EXCEPT !.algorithm = temp_config.algorithm]
    /\ pc' = [pc EXCEPT ![c] = "ssc_parameters"]
    /\ UNCHANGED <<temp_config, provider_config, key, secCfgFrame>>

setSecurityConfig_assign_parameters(c) ==
    /\ pc[c] = "ssc_parameters"
    /\ m_security_config' =
          [m_security_config EXCEPT !.parameters = temp_config.parameters]
    /\ pc' = [pc EXCEPT ![c] = "idle"]
    /\ UNCHANGED <<temp_config, provider_config, key, secCfgFrame>>

\* Service::securityAccess, lines 148-155: m_security_config is passed by
\* reference, without a lock, to the SecurityProvider, which reads it member
\* by member.
securityAccess_read_algorithm(c) ==
    /\ pc[c] = "idle"
    /\ provider_config' =
          [ZeroSecurityConfig EXCEPT !.algorithm = m_security_config.algorithm]
    /\ pc' = [pc EXCEPT ![c] = "sa_parameters"]
    /\ UNCHANGED <<m_security_config, temp_config, key, secCfgFrame>>

securityAccess_read_parameters(c) ==
    /\ pc[c] = "sa_parameters"
    /\ provider_config' =
          [provider_config EXCEPT !.parameters = m_security_config.parameters]
    /\ pc' = [pc EXCEPT ![c] = "sa_provider"]
    /\ UNCHANGED <<m_security_config, temp_config, key, secCfgFrame>>

\* Lines 160 and 191: the sequence runs with this provider, whose
\* calculateKey derives the key from the configuration it holds.
securityAccess_calculateKey(c) ==
    /\ pc[c] = "sa_provider"
    /\ key' = <<provider_config.algorithm, provider_config.parameters>>
    /\ pc' = [pc EXCEPT ![c] = "idle"]
    /\ UNCHANGED <<m_security_config, temp_config, provider_config, secCfgFrame>>

NextSecCfg ==
    \/ \E parse_result \in {-1, 0, 1}, parsed \in SecurityConfigs :
          setSecurityConfig_parse("c1", parse_result, parsed)
    \/ setSecurityConfig_assign_algorithm("c1")
    \/ setSecurityConfig_assign_parameters("c1")
    \/ securityAccess_read_algorithm("c2")
    \/ securityAccess_read_parameters("c2")
    \/ securityAccess_calculateKey("c2")

\* One thread calling set_security_config while another calls
\* security_access.
SpecSecCfg == InitSvc /\ [][NextSecCfg]_vars

\* C22: the configuration a security_access derives its key from is one
\* complete configuration, the initial one or one that set_security_config
\* installed, never a mixture of two.
C22_ProviderSeesCompleteConfig ==
    pc["c2"] = "sa_provider"
        => provider_config \in SecurityConfigs \cup {ZeroSecurityConfig}

\* ------------------------------------------------- segmented requests
\* Request lengths that need segmentation: the shortest, one with two
\* Consecutive Frames, and two that take the sequence number past 15.
SegRequestSizes == {8, 20, 118, 125}

\* Block sizes the ECU announces in its Flow Controls.
SegBlockSizes == {0, 1, 2, 3}

\* Separation times it announces: none, 2 ms, a sub-millisecond value and a
\* reserved one.
SegSeparationTimes == {0, 2, 245, 200}

SegFcFrames ==
    {[CanID |-> "response_id", pci_type |-> "FC", status |-> "CONTINUE_TO_SEND",
      block_size |-> bs, separation_time |-> st] :
        bs \in SegBlockSizes, st \in SegSeparationTimes}

InitSeg ==
    /\ InitCommon
    /\ tester_present_interval_ms = 0
    /\ \E n \in SegRequestSizes :
          TxConstructed(CHOOSE cfg \in TpConfigs : cfg.max_nrc78_count = 0,
                        [i \in 1..n |-> i % 256])
    /\ svc_m_context = m_context

\* execute() up to WAIT_FOR_RESPONSE for a segmented request, the ECU
\* answering every wait at once with a Flow Control Continue.
NextSeg ==
    \/ execute_begin
    \/ handle_start
    \/ \E ok \in BOOLEAN : handle_send_first_frame(ok)
    \/ waitForFrame_call
    \/ waitForFrame_poll
    \/ \E f \in SegFcFrames : provider_frame(f, 0)
    \/ handle_wait_for_fc
    \/ handle_send_consecutive_frames
    \/ \E ok \in BOOLEAN : send_consecutive_turn(ok)
    \/ \E ok \in BOOLEAN : send_consecutive_paced(ok)

SpecSeg == InitSeg /\ [][NextSeg]_vars

\* The payload bytes of a sequence of First and Consecutive Frames, in order.
RECURSIVE PayloadOf(_)
PayloadOf(frames) ==
    IF frames = <<>> THEN <<>>
    ELSE PayloadOf(SubSeq(frames, 1, Len(frames) - 1))
            \o frames[Len(frames)].payload

\* C23: the frames the Segmenter has emitted are one First Frame announcing
\* the total size, then Consecutive Frames numbered 1,2,...,15,0,1,...; their
\* payloads concatenate to the part of the request emitted so far, each byte
\* once, and is_done() holds exactly when that is the whole request.
C23_SegmenterEmitsPayloadOnce ==
    m_segmenter.engaged =>
        /\ PayloadOf(sent) = SubSeq(m_request_payload, 1, m_segmenter.offset)
        /\ \A i \in 1..Len(sent) :
              IF i = 1
              THEN /\ sent[i].pci_type = "FF"
                   /\ sent[i].total_size = Len(m_request_payload)
              ELSE /\ sent[i].pci_type = "CF"
                   /\ sent[i].sequence_number = (i - 1) % 16
        /\ isDone <=> PayloadOf(sent) = m_request_payload

\* A request of 125 bytes has gone out in a First Frame and 17 Consecutive
\* Frames, the last two numbered 0 and 1.
C23_Witness ==
    /\ Len(m_request_payload) = 125
    /\ m_state = "WAIT_FOR_RESPONSE"
    /\ Len(sent) = 18
    /\ sent[17].sequence_number = 0
    /\ sent[18].sequence_number = 1
    /\ PayloadOf(sent) = m_request_payload

\* ------------------------------------------------------------ block size
SendsConsecutiveFrame ==
    /\ m_state = "SEND_CONSECUTIVE_FRAMES"
    /\ Len(sent') = Len(sent) + 1

\* C30: a Flow Control Continue replaces the block size and the separation
\* time and resets the in-block counter; the counter counts the Consecutive
\* Frames sent since; with a block size B > 0 no frame goes out once B frames
\* were sent, and WAIT_FOR_FC is re-entered exactly after B frames when data
\* remains; after the last frame of the payload the transaction goes to
\* WAIT_FOR_RESPONSE without waiting for a Flow Control; with B = 0 it never
\* re-enters WAIT_FOR_FC.
C30_BlockSizeHonoured ==
    [][/\ (m_state = "WAIT_FOR_FC" /\ m_state' = "SEND_CONSECUTIVE_FRAMES")
            => /\ m_fc_block_size_from_ecu' = frame_opt.block_size
               /\ m_fc_separation_time_from_ecu' =
                     (IF frame_opt.separation_time <= 127
                      THEN frame_opt.separation_time
                      ELSE IF frame_opt.separation_time \in 241..249 THEN 1
                      ELSE 127)
               /\ m_fc_frames_sent_in_block' = 0
       /\ SendsConsecutiveFrame
            => /\ \/ m_fc_block_size_from_ecu = 0
                  \/ m_fc_frames_sent_in_block < m_fc_block_size_from_ecu
               /\ sent'[Len(sent')].pci_type = "CF"
               /\ m_state' = "SEND_CONSECUTIVE_FRAMES"
                     => m_fc_frames_sent_in_block' = m_fc_frames_sent_in_block + 1
       /\ (m_state = "SEND_CONSECUTIVE_FRAMES" /\ ~SendsConsecutiveFrame
             /\ m_state' = "SEND_CONSECUTIVE_FRAMES")
            => UNCHANGED <<m_fc_frames_sent_in_block, m_fc_block_size_from_ecu>>
       /\ (m_state = "SEND_CONSECUTIVE_FRAMES" /\ m_state' = "WAIT_FOR_FC")
            => /\ m_fc_block_size_from_ecu > 0
               /\ m_fc_frames_sent_in_block = m_fc_block_size_from_ecu
               /\ Len(PayloadOf(sent)) < Len(m_request_payload)
               /\ sent' = sent
       /\ (m_state = "SEND_CONSECUTIVE_FRAMES" /\ m_state' = "WAIT_FOR_RESPONSE")
            => /\ PayloadOf(sent) = m_request_payload
               /\ sent' = sent
       /\ (m_state = "SEND_CONSECUTIVE_FRAMES"
             /\ PayloadOf(sent) = m_request_payload)
            => m_state' # "WAIT_FOR_FC"]_vars

\* A block of 3 ended with the last Consecutive Frame of the payload, and
\* the transaction went on to WAIT_FOR_RESPONSE.
C30_Witness ==
    /\ m_state = "WAIT_FOR_RESPONSE"
    /\ m_fc_block_size_from_ecu = 3
    /\ m_fc_frames_sent_in_block = 3
    /\ Len(sent) > 4
    /\ PayloadOf(sent) = m_request_payload

\* ------------------------------------------------------------ round trip
\* Payload lengths fed through a Segmenter and a Reassembler: every length
\* from 8 to 40, and lengths that take the sequence number past 15 once and
\* twice.
RoundTripSizes == (8..40) \cup {118, 119, 125, 230}

\* The Segmenter of a request (line 127) and a fresh Reassembler.
InitRoundTrip ==
    /\ InitCommon
    /\ tester_present_interval_ms = 0
    /\ \E n \in RoundTripSizes :
          TxConstructed(CHOOSE cfg \in TpConfigs : cfg.max_nrc78_count = 0,
                        [i \in 1..n |-> i % 256])
    /\ svc_m_context = m_context

\* The next frame of the Segmenter is handed to the Reassembler as it is.
RoundTripFrame ==
    /\ m_segmenter.engaged
    /\ ~isDone
    /\ sent' = Append(sent, getNextFrame)
    /\ m_segmenter' = SegmenterAdvanced
    /\ m_reassembler' = processFrame(m_reassembler, getNextFrame)
    /\ UNCHANGED <<txFixed, m_abort_flag, m_state, m_result, m_nrc78_count,
                   fcVars, at, waitVars, sinceArmed, stopSeen>>

NextRoundTrip ==
    \/ execute_begin
    \/ handle_start
    \/ RoundTripFrame

SpecRoundTrip == InitRoundTrip /\ [][NextRoundTrip]_vars

\* C24: a fresh Reassembler fed the frames of a Segmenter expects, after each
\* frame, the sequence number the Segmenter gives its next frame, holds the
\* bytes emitted so far, and is Complete with the whole payload when the
\* Segmenter is done, and not before.
C24_RoundTrip ==
    (m_segmenter.engaged /\ sent # <<>>) =>
        /\ m_reassembler.payload =
              SubSeq(m_request_payload, 1, m_segmenter.offset)
        /\ IF isDone
           THEN /\ m_reassembler.status = "COMPLETE"
                /\ m_reassembler.payload = m_request_payload
           ELSE /\ m_reassembler.status = "IN_PROGRESS"
                /\ m_reassembler.expected_sn = m_segmenter.sn

\* A payload of 230 bytes came out of the Reassembler after 33 frames.
C24_Witness ==
    /\ Len(m_request_payload) = 230
    /\ Len(sent) = 33
    /\ m_reassembler.status = "COMPLETE"
    /\ m_reassembler.payload = m_request_payload

\* -------------------------------------------------------- sequence errors
\* handle_receive_consecutive_frames is about to process a Consecutive Frame
\* that does not carry the expected sequence number.
GotWrongConsecutiveFrame ==
    /\ m_state = "RECEIVE_CONSECUTIVE_FRAMES"
    /\ at = "got"
    /\ frame_opt # nullopt
    /\ frame_opt.pci_type = "CF"
    /\ frame_opt.sequence_number # m_reassembler.expected_sn

\* C25: a Consecutive Frame with another sequence number than the expected
\* one puts the Reassembler into ErrorSequence and ends the transaction
\* FAILED(SequenceError); the Reassembler stays in ErrorSequence and the
\* transaction FAILED ever after.
C25_SequenceErrorIsFinal ==
    [][/\ (GotWrongConsecutiveFrame /\ frame_opt' # frame_opt)
            => /\ m_reassembler'.status = "ERROR_SEQUENCE"
               /\ m_state' = "FAILED"
               /\ m_result'.result_code = "SequenceError"
               /\ ~m_result'.success
               /\ at' = "done"
       /\ m_reassembler.status = "ERROR_SEQUENCE"
            => /\ m_reassembler'.status = "ERROR_SEQUENCE"
               /\ m_state' = "FAILED"
               /\ m_result'.result_code = "SequenceError"]_vars

\* A multi-frame response whose first Consecutive Frame was numbered 2 has
\* failed the transaction.
C25_Witness ==
    /\ m_reassembler.status = "ERROR_SEQUENCE"
    /\ m_reassembler.expected_sn = 1
    /\ m_state = "FAILED"
    /\ m_result.result_code = "SequenceError"
    /\ at = "done"


\* ------------------------------------------- FunctionalTransaction::execute
\* The overall silence timeout, in provider calls that time out in a row, and
\* the most single-frame replies the provider delivers.
FuncSilenceTimeout == 2
MaxReplies == 2

\* The broadcast: the request in one frame to the functional identifier.
FuncRequestFrame ==
    [pci_type |-> "SF", CanID |-> "functional_id", payload |-> "request"]

\* What the provider can deliver during the collection window: single-frame
\* replies of two ECUs, a First Frame and a Flow Control frame.
FuncRxFrames ==
    {[pci_type |-> "SF", CanID |-> e, payload |-> p] :
        e \in {"ecu1", "ecu2"}, p \in {98}}
    \cup {[pci_type |-> "FF", CanID |-> "ecu1", payload |-> 98],
          [pci_type |-> "FC", CanID |-> "ecu2", payload |-> 0]}

\* A collected reply: {payload, source_identifier}.
FuncReply(f) == [payload |-> f.payload, source_identifier |-> f.CanID]

funcTxFrame == <<txVars, ptrVars, stopVars, secVars, svc_m_context, fifoVars,
                 secCfgVars, req, res, execTx, sentFrames, dequeued, objVars,
                 queueVars, flagVars, nextId, ub, m_functional_transaction,
                 m_functional_request_queue, m_functional_response_queue,
                 m_func_thread_active, kaDue, stopCalled>>

\* execute() broadcasts the request once, through the sender closure of line
\* 365, and starts the collection window with an empty list.
FunctionalExecute_broadcast ==
    /\ ~crashed
    /\ pc[FuncWorker] = "f_run"
    /\ func_sent' = <<FuncRequestFrame>>
    /\ \E sendOk \in BOOLEAN :
          unstampedSend' = (unstampedSend \/ sendOk)
    /\ funcResponses' = <<>>
    /\ func_silence' = 0
    /\ pc' = [pc EXCEPT ![FuncWorker] = "f_collect"]
    /\ UNCHANGED <<funcTxFrame, func_heard, m_transaction_mutex>>

\* One provider call of the collection window returns a frame: a Single Frame
\* is collected as {payload, source_identifier} and ends the silence, any
\* other frame is dropped, and nothing is sent.
FunctionalExecute_receive(f) ==
    /\ ~crashed
    /\ pc[FuncWorker] = "f_collect"
    /\ FuncWorker \notin m_abort_flag
    /\ func_silence < FuncSilenceTimeout
    /\ Len(func_heard) < MaxReplies
    /\ IF f.pci_type = "SF"
       THEN /\ funcResponses' = Append(funcResponses, FuncReply(f))
            /\ func_heard' = Append(func_heard, FuncReply(f))
            /\ func_silence' = 0
       ELSE UNCHANGED <<funcResponses, func_heard, func_silence>>
    /\ UNCHANGED <<funcTxFrame, pc, func_sent, m_transaction_mutex,
                   unstampedSend>>

\* One provider call of the collection window times out.
FunctionalExecute_quiet ==
    /\ ~crashed
    /\ pc[FuncWorker] = "f_collect"
    /\ FuncWorker \notin m_abort_flag
    /\ func_silence < FuncSilenceTimeout
    /\ func_silence' = func_silence + 1
    /\ UNCHANGED <<funcTxFrame, pc, func_sent, func_heard, funcResponses,
                   m_transaction_mutex, unstampedSend>>

\* execute() returns the collected list once the silence timeout elapsed or
\* stopExecution() was called; the scope of tx_lock ends (line 376).
FunctionalExecute_return ==
    /\ ~crashed
    /\ pc[FuncWorker] = "f_collect"
    /\ FuncWorker \in m_abort_flag \/ func_silence >= FuncSilenceTimeout
    /\ m_transaction_mutex' = NoThread
    /\ pc' = [pc EXCEPT ![FuncWorker] = "f_reset"]
    /\ UNCHANGED <<funcTxFrame, funcTxVars, funcResponses, unstampedSend>>

NextFunc ==
    \/ RequestFunctionalCheck("c1")
    \/ RequestFunctionalStart("c1")
    \/ RequestFunctionalEnqueue("c1")
    \/ AbortCall("c2")
    \/ AbortPhysLock("c2")
    \/ AbortPhysStop("c2")
    \/ AbortFuncLock("c2")
    \/ AbortFuncStop("c2")
    \/ FuncWorkerWait
    \/ FuncPtrLock
    \/ FuncMake
    \/ FuncLock
    \/ FunctionalExecute_broadcast
    \/ \E f \in FuncRxFrames : FunctionalExecute_receive(f)
    \/ FunctionalExecute_quiet
    \/ FunctionalExecute_return
    \/ FuncResetLock
    \/ FuncResetUnlock
    \/ FuncWorkerExit

\* One caller of request_functional, one caller of abort, and the functional
\* worker with every step of FunctionalTransaction::execute().
SpecFunc == InitSvc /\ [][NextFunc]_vars

\* The functional worker is past the broadcast of the transaction it holds.
FuncPastBroadcast == pc[FuncWorker] \in {"f_collect", "f_reset", "f_unmake"}

\* C26: a FunctionalTransaction sends the request exactly once and no other
\* frame; the list it returns is exactly the single-frame replies received
\* in its window, each with its source; it returns only on the silence
\* timeout or after stopExecution(); and every returned reply reaches the
\* functional response queue.
C26_FunctionalCollectsAndPushes ==
    [][/\ FuncPastBroadcast' => func_sent' = <<FuncRequestFrame>>
       /\ Len(func_sent') <= 1
       /\ func_heard' = m_functional_response_queue' \o funcResponses'
       /\ (pc[FuncWorker] = "f_collect" /\ pc'[FuncWorker] = "f_reset")
             => \/ FuncWorker \in m_abort_flag
                \/ func_silence >= FuncSilenceTimeout]_vars

C26_Witness ==
    /\ pc[FuncWorker] = "f_loop"
    /\ funcResponses = <<>>
    /\ func_sent = <<FuncRequestFrame>>
    /\ Len(m_functional_response_queue) = 2
    /\ m_functional_response_queue[1].source_identifier
          # m_functional_response_queue[2].source_identifier


\* ------------------------------------------- requestSync with any payload
\* Service::requestSync (lines 213-217) with a payload that may be empty:
\* executeTransaction is called at once, with no check of the payload.  An
\* empty payload is request 0.
requestSync(c, empty) ==
    /\ ~crashed
    /\ pc[c] = "idle"
    /\ nextId <= MaxCalls
    /\ req' = [req EXCEPT ![c] = IF empty THEN 0 ELSE nextId]
    /\ nextId' = nextId + 1
    /\ pc' = [pc EXCEPT ![c] = "ex_create"]
    /\ UNCHANGED <<txVars, extVars>>
    /\ UNCHANGED <<res, execTx, sentFrames, dequeued, objVars, queueVars,
                   flagVars, m_transaction_mutex, clockVars, ub>>

\* Transaction::Transaction (vci_uds_transaction.cpp lines 31-34): the sender
\* and the provider of executeTransaction are never null, so the constructor
\* throws std::invalid_argument exactly when the payload is empty.
ConstructorThrows(t) == req[t] = 0

\* Line 403 of executeTransaction: make_unique<Transaction>.  When the
\* constructor throws nothing is assigned to m_transaction, the lock_guard of
\* line 402 is released by the unwinding, and with no handler in
\* executeTransaction or requestSync the exception leaves the Service on the
\* caller's thread.
ExMakeOrThrow(t) ==
    IF ConstructorThrows(t)
    THEN /\ ~crashed
         /\ pc[t] = "ex_make"
         /\ m_transaction_pointer_mutex = t
         /\ m_transaction_pointer_mutex' = NoThread
         /\ pc' = [pc EXCEPT ![t] = "threw"]
         /\ UNCHANGED <<txVars, funcVars, m_functional_pointer_mutex>>
         /\ UNCHANGED <<req, res, lockFrame, objVars, clockVars>>
    ELSE ExMake(t)

NextSync ==
    \/ \E c \in Callers, empty \in BOOLEAN : requestSync(c, empty)
    \/ \E c \in Callers : ExPtrLock(c)
    \/ \E c \in Callers : ExMakeOrThrow(c)
    \/ \E c \in Callers : ExLock(c)
    \/ \E c \in Callers : ExRun(c)
    \/ \E c \in Callers : ExResetLock(c)
    \/ \E c \in Callers : ExResetUnlock(c)

\* Two callers of request_sync, with payloads that may be empty.
SpecSync == InitSvc /\ [][NextSync]_vars

\* The locks thread t owns.
LocksHeldBy(t) ==
    {m \in {"tx", "ptr", "fptr"} :
        \/ m = "tx" /\ m_transaction_mutex = t
        \/ m = "ptr" /\ m_transaction_pointer_mutex = t
        \/ m = "fptr" /\ m_functional_pointer_mutex = t}

\* C27: request_sync ends with a result code for every payload, an empty one
\* included: no call is left by an exception, and a caller that is out of
\* the call holds no lock.
C27_RequestSyncReturnsCode ==
    \A c \in Callers :
        /\ pc[c] # "threw"
        /\ pc[c] \in {"idle", "threw"} => LocksHeldBy(c) = {}


\* ------------------------------------- the timeouts of WAIT_FOR_RESPONSE
\* A wait for the response is in progress or has just ended.
WaitingForResponse ==
    m_state = "WAIT_FOR_RESPONSE" /\ at \in {"wff", "prov", "got"}

\* The wait for the response expired: waitForFrame returned no frame and the
\* abort flag is clear when the handler reads it.
ResponseWaitExpired ==
    /\ m_state = "WAIT_FOR_RESPONSE"
    /\ at = "got"
    /\ frame_opt = nullopt
    /\ ~aborted

\* C28: in WAIT_FOR_RESPONSE the wait timeout is n_as until the first NRC
\* 0x78 and n_ar for every wait after one; a wait that expires fails the
\* transaction with TimeoutP2Star if an NRC 0x78 was received and with
\* TimeoutA otherwise.
C28_ResponseTimeouts ==
    [][/\ WaitingForResponse'
            => timeout_ms' = IF m_nrc78_count' > 0
                             THEN m_context'.n_ar_timeout
                             ELSE m_context'.n_as_timeout
       /\ (ResponseWaitExpired /\ at' # at)
            => /\ m_state' = "FAILED"
               /\ m_result'.result_code =
                     IF m_nrc78_count > 0 THEN "TimeoutP2Star" ELSE "TimeoutA"]_vars

\* A transaction that received one NRC 0x78 waited n_ar and then timed out.
C28_Witness ==
    /\ m_state = "FAILED"
    /\ m_result.result_code = "TimeoutP2Star"
    /\ m_nrc78_count = 1
    /\ timeout_ms = m_context.n_ar_timeout
    /\ m_context.n_ar_timeout # m_context.n_as_timeout


\* ------------------------------------------ the negative-response check
\* C29: execute() never ends in success (Ok) with a response payload whose
\* first byte is 0x7F, however the response was completed: by a Single
\* Frame, by Consecutive Frames, or by the First Frame alone.
C29_NoSuccessWithNegativePayload ==
    (m_result.success /\ m_result.response_payload # <<>>)
        => m_result.response_payload[1] # 127


\* --------------------------------------- Consecutive Frames need a Continue
\* The frame handle_wait_for_fc is about to look at is a Flow Control with
\* the given status.
GotFlowControl(status) ==
    /\ frame_opt # nullopt
    /\ parse(frame_opt)
    /\ frame_opt.pci_type = "FC"
    /\ frame_opt.status = status

\* handle_wait_for_fc takes its step on what waitForFrame returned.
WaitForFcStep ==
    /\ m_state = "WAIT_FOR_FC"
    /\ at = "got"
    /\ at' # at

\* The step hands a frame of the given type to the sender.
HandsOver(type) ==
    /\ Len(sent') = Len(sent) + 1
    /\ sent'[Len(sent')].pci_type = type

FailsWith(code) ==
    /\ m_state' = "FAILED"
    /\ m_result'.result_code = code
    /\ sent' = sent

\* In WAIT_FOR_FC a Consecutive Frame was sent since the last Continue
\* exactly when one was sent at all: a Continue leads to
\* SEND_CONSECUTIVE_FRAMES, and WAIT_FOR_FC is entered again only after the
\* block that Continue allowed.
ConsecutiveFrameSent ==
    \E i \in 1..Len(sent) : sent[i].pci_type = "CF"

\* C31 as stated: a failure in WAIT_FOR_FC (FcOverflow, UnexpectedFrame,
\* TimeoutBs) happens without any Consecutive Frame having been sent since
\* the last Continue.
C31_NoConsecutiveFrameSinceContinue ==
    [][(WaitForFcStep /\ m_state' = "FAILED"
          /\ m_result'.result_code \in
                {"FcOverflow", "UnexpectedFrame", "TimeoutBs"})
         => ~ConsecutiveFrameSent]_vars

\* C31, amended: Consecutive Frames are sent in SEND_CONSECUTIVE_FRAMES
\* only, which is entered only on a Flow Control Continue received in
\* WAIT_FOR_FC (the first time after the First Frame); in
\* WAIT_FOR_FC an Overflow ends FAILED(FcOverflow), a frame that does not
\* parse or is no Flow Control ends FAILED(UnexpectedFrame), and n_bs
\* expiring ends FAILED(TimeoutBs), with no frame sent by that step.
C31_ConsecutiveFramesNeedContinue ==
    [][/\ HandsOver("CF") => m_state = "SEND_CONSECUTIVE_FRAMES"
       /\ (m_state # "SEND_CONSECUTIVE_FRAMES"
             /\ m_state' = "SEND_CONSECUTIVE_FRAMES")
            => /\ m_state = "WAIT_FOR_FC"
               /\ GotFlowControl("CONTINUE_TO_SEND")
       /\ m_state = "WAIT_FOR_FC" => sent' = sent
       /\ (WaitForFcStep /\ GotFlowControl("OVERFLOW"))
            => FailsWith("FcOverflow")
       /\ (WaitForFcStep /\ frame_opt # nullopt
             /\ (~parse(frame_opt) \/ frame_opt.pci_type # "FC"))
            => FailsWith("UnexpectedFrame")
       /\ (WaitForFcStep /\ frame_opt = nullopt /\ ~aborted)
            => FailsWith("TimeoutBs")]_vars

\* A transaction that sent a block of Consecutive Frames, waited for the next
\* Flow Control and got an Overflow.
C31_Witness ==
    /\ m_state = "FAILED"
    /\ m_result.result_code = "FcOverflow"
    /\ Len(sent) = 2
    /\ sent[2].pci_type = "CF"


\* ------------------------------------------- receiving a multi-frame response
\* Session contexts with every kind of configured block size and st_min.
RxConfigs ==
    [can_type : {"CLASSIC"}, n_as_timeout : {12}, n_bs_timeout : {12},
     n_cr_timeout : {5}, n_ar_timeout : {15}, max_nrc78_count : {0},
     block_size : {0, 1, 2}, st_min : {0, 5}]

\* What the peer answers with: First Frames announcing 8, 14 and 20 bytes,
\* Consecutive Frames, and a frame that does not parse.
RxResponseFrames ==
    {[CanID |-> "response_id", pci_type |-> "FF", total_size |-> n,
      payload |-> <<98>> \o Zeros(5)] : n \in {8, 14, 20}}
    \cup {[CanID |-> "response_id", pci_type |-> "CF", sequence_number |-> sn,
           payload |-> Zeros(7)] : sn \in {1, 2}}
    \cup {[CanID |-> "response_id", pci_type |-> "INVALID"]}

InitRx ==
    /\ InitCommon
    /\ tester_present_interval_ms = 0
    /\ \E cfg \in RxConfigs : TxConstructed(cfg, <<1, 2>>)
    /\ svc_m_context = m_context

NextRx ==
    \/ stopExecution
    \/ execute_begin
    \/ execute_abort
    \/ handle_start
    \/ \E ok \in BOOLEAN : handle_send_single_frame(ok)
    \/ waitForFrame_call
    \/ waitForFrame_poll
    \/ provider_timeout
    \/ \E f \in RxResponseFrames, d \in {0, chunk} : provider_frame(f, d)
    \/ \E ok \in BOOLEAN : handle_wait_for_response(ok)
    \/ handle_receive_consecutive_frames

\* One single-frame request answered by a multi-frame response, for every
\* configured block size.
SpecRx == InitRx /\ [][NextRx]_vars

\* The Flow Control frames handed to the sender so far.
FlowControlsSent == {i \in 1..Len(sent) : sent[i].pci_type = "FC"}

\* C32: on a multi-frame response the transaction sends exactly one Flow
\* Control, Continue with the configured block_size and st_min, on the First
\* Frame and before any Consecutive Frame is processed, and nothing else
\* while in RECEIVE_CONSECUTIVE_FRAMES, whatever the configured block size.
C32_OneFlowControl ==
    [][/\ HandsOver("FC")
            => /\ m_state = "WAIT_FOR_RESPONSE"
               /\ frame_opt.pci_type = "FF"
               /\ m_reassembler.status = "IDLE"
               /\ sent'[Len(sent')] =
                     [pci_type |-> "FC", status |-> "CONTINUE_TO_SEND",
                      block_size |-> m_context.block_size,
                      separation_time |-> m_context.st_min]
       /\ m_state = "RECEIVE_CONSECUTIVE_FRAMES" => sent' = sent
       /\ m_state' = "RECEIVE_CONSECUTIVE_FRAMES"
            => /\ Cardinality(FlowControlsSent') = 1
               /\ m_reassembler'.total_size > 6
       /\ Cardinality(FlowControlsSent') <= 1]_vars

\* A response of three frames received with a configured block size of 1:
\* one Flow Control was sent, and both Consecutive Frames were taken.
C32_Witness ==
    /\ m_state = "COMPLETED"
    /\ m_context.block_size = 1
    /\ m_reassembler.total_size = 20
    /\ Cardinality(FlowControlsSent) = 1
    /\ Len(sent) = 2


\* ------------------------------------------------ the separation time clamp
\* Every value of the STmin byte.
StMinBytes == 0..255

StFcFrames ==
    {[CanID |-> "response_id", pci_type |-> "FC", status |-> "CONTINUE_TO_SEND",
      block_size |-> 0, separation_time |-> st] : st \in StMinBytes}

InitSt ==
    /\ InitCommon
    /\ tester_present_interval_ms = 0
    /\ TxConstructed(CHOOSE cfg \in TpConfigs : cfg.max_nrc78_count = 0,
                     [i \in 1..8 |-> i])
    /\ svc_m_context = m_context

NextSt ==
    \/ execute_begin
    \/ handle_start
    \/ \E ok \in BOOLEAN : handle_send_first_frame(ok)
    \/ waitForFrame_call
    \/ waitForFrame_poll
    \/ \E f \in StFcFrames : provider_frame(f, 0)
    \/ handle_wait_for_fc

\* execute() of a two-frame request up to the Flow Control Continue, which
\* carries any STmin byte.
SpecSt == InitSt /\ [][NextSt]_vars

\* C33: the separation time taken from a Flow Control Continue is the STmin
\* byte itself for 0x00..0x7F, 1 ms for 0xF1..0xF9 and 127 ms for every other
\* value, hence always within 0..127 ms.
C33_SeparationTimeClamped ==
    [][(WaitForFcStep /\ GotFlowControl("CONTINUE_TO_SEND"))
         => /\ m_fc_separation_time_from_ecu' =
                  (LET st == frame_opt.separation_time
                   IN  CASE st \in 0..127 -> st
                         [] st \in 241..249 -> 1
                         [] st \in (128..240) \cup (250..255) -> 127)
            /\ m_fc_separation_time_from_ecu' \in 0..127]_vars

\* A Continue was taken and left a separation time of 127 ms.
C33_Witness ==
    /\ m_state = "SEND_CONSECUTIVE_FRAMES"
    /\ m_fc_separation_time_from_ecu = 127


\* ---------------------------------------------------- a sender that refuses
\* A step in which a frame was handed to the sender and the sender returned
\* false: the Single Frame, the First Frame, a Consecutive Frame, or the Flow
\* Control answering a First Frame.
SenderReturnsFalse ==
    /\ Len(sent') = Len(sent) + 1
    /\ \/ handle_send_single_frame(FALSE)
       \/ handle_send_first_frame(FALSE)
       \/ send_consecutive_turn(FALSE)
       \/ send_consecutive_paced(FALSE)
       \/ handle_wait_for_response(FALSE)

\* C34: when the sender returns false for a frame the transaction ends
\* FAILED(SendFailed) in that step, and it sends no frame afterwards.
C34_SendFailureIsFinal ==
    [][/\ SenderReturnsFalse
            => /\ m_state' = "FAILED"
               /\ m_result'.result_code = "SendFailed"
               /\ at' = "done"
       /\ m_result.result_code = "SendFailed" => sent' = sent]_vars

\* The sender refused the second Consecutive Frame of a request.
C34_Witness ==
    /\ m_state = "FAILED"
    /\ m_result.result_code = "SendFailed"
    /\ Len(sent) = 3
    /\ sent[3].pci_type = "CF"


\* ------------------------------------------------- the result of execute()
\* C35: when execute() returns, success is true exactly when result_code is
\* Ok and exactly when the state is COMPLETED; no step leaves COMPLETED or
\* FAILED; and response_payload is non-empty only with Ok or NegativeResponse.
C35_ResultConsistent ==
    [][/\ at' = "done"
            => /\ m_state' \in {"COMPLETED", "FAILED"}
               /\ m_result'.success <=> m_result'.result_code = "Ok"
               /\ m_result'.success <=> m_state' = "COMPLETED"
               /\ m_result'.response_payload # <<>>
                     => m_result'.result_code \in {"Ok", "NegativeResponse"}
       /\ m_state \in {"COMPLETED", "FAILED"}
            => /\ m_state' = m_state
               /\ m_result' = m_result
               /\ at' = "done"]_vars

\* execute() returned FAILED(NegativeResponse) with the payload attached.
C35_Witness ==
    /\ at = "done"
    /\ m_state = "FAILED"
    /\ ~m_result.success
    /\ m_result.result_code = "NegativeResponse"
    /\ m_result.response_payload # <<>>


\* --------------------------------------- concurrent executeTransaction calls
\* C36: with concurrent executeTransaction calls, a thread inside execute()
\* runs the Transaction built from its own payload, that object is alive and
\* is the one m_transaction holds until execute() has returned, and no call
\* ends in undefined behaviour.
C36_EachCallRunsItsOwnTransaction ==
    /\ ub = "none"
    /\ \A t \in ExecThreads :
          pc[t] = "ex_run"
             => /\ execTx[t] = t
                /\ t \notin dangling
                /\ m_transaction = t


\* ------------------------------------------------------------ termination
\* What the peer delivers: a positive reply, a pending reply, Flow Controls
\* of every status, a frame that does not parse, a response of two frames,
\* and a frame with another identifier.
LiveFrames ==
    {[CanID |-> "response_id", pci_type |-> "SF", payload |-> p] :
        p \in {<<98, 1>>, <<127, 34, 120>>}}
    \cup {[CanID |-> "response_id", pci_type |-> "FC", status |-> st,
           block_size |-> 0, separation_time |-> 0] :
             st \in {"CONTINUE_TO_SEND", "WAIT", "OVERFLOW"}}
    \cup {[CanID |-> "response_id", pci_type |-> "FF", total_size |-> 8,
           payload |-> <<98>> \o Zeros(5)],
          [CanID |-> "response_id", pci_type |-> "CF", sequence_number |-> 1,
           payload |-> Zeros(7)],
          [CanID |-> "response_id", pci_type |-> "INVALID"],
          [CanID |-> "other_id", pci_type |-> "SF", payload |-> <<98, 1>>]}

InitLive ==
    /\ InitCommon
    /\ tester_present_interval_ms = 0
    /\ \E n \in {2, 9} :
          TxConstructed(CHOOSE cfg \in TpConfigs : cfg.max_nrc78_count = 2,
                        [i \in 1..n |-> i])
    /\ svc_m_context = m_context

\* execute() with stopExecution() never called, every sender call returning
\* and every provider call taking the time it was given.
NextLive ==
    \/ execute_begin
    \/ handle_start
    \/ \E ok \in BOOLEAN : handle_send_single_frame(ok)
    \/ \E ok \in BOOLEAN : handle_send_first_frame(ok)
    \/ waitForFrame_call
    \/ waitForFrame_poll
    \/ provider_timeout
    \/ \E f \in LiveFrames : provider_frame(f, chunk)
    \/ handle_wait_for_fc
    \/ handle_send_consecutive_frames
    \/ \E ok \in BOOLEAN : send_consecutive_turn(ok)
    \/ \E ok \in BOOLEAN : handle_wait_for_response(ok)
    \/ handle_receive_consecutive_frames

\* The thread inside execute() keeps running: a step that can be taken is
\* taken.
SpecLive == InitLive /\ [][NextLive]_vars /\ WF_vars(NextLive)

\* The provider hands over a frame that makes the handler wait again from the
\* start: a Flow Control Wait in WAIT_FOR_FC, a frame that does not parse or
\* is neither Single nor First Frame in WAIT_FOR_RESPONSE, a frame that does
\* not parse in RECEIVE_CONSECUTIVE_FRAMES.
IgnoredDelivery ==
    /\ at = "prov"
    /\ at' = "got"
    /\ LET f == frame_opt'
       IN  \/ /\ m_state = "WAIT_FOR_FC"
              /\ parse(f)
              /\ f.pci_type = "FC"
              /\ f.status = "WAIT"
           \/ /\ m_state = "WAIT_FOR_RESPONSE"
              /\ ~parse(f) \/ f.pci_type \notin {"SF", "FF"}
           \/ /\ m_state = "RECEIVE_CONSECUTIVE_FRAMES"
              /\ ~parse(f)

\* C37 as stated: without stopExecution(), every execute() returns, whatever
\* the peer sends.
C37_ExecuteTerminates == <>(at = "done")

\* C37, amended: without stopExecution(), every execute() returns provided
\* the peer delivers only finitely many frames that make a handler wait
\* again (Flow Control Wait, unparseable and other ignored frames).
C37_ExecuteTerminatesUnlessKeptWaiting ==
    <>[][~IgnoredDelivery]_vars => <>(at = "done")

\* execute() returned after a pending reply had made it wait again.
C37_Witness ==
    /\ at = "done"
    /\ m_nrc78_count = 1
    /\ m_result.result_code = "TimeoutP2Star"


\* ----------------------------------------------- joining the worker threads
\* C38: when the destructor has run its stop steps, every worker thread that
\* was started has been joined, also a worker that had left by itself: no
\* thread object is still joinable.
C38_WorkersJoinedAfterStop ==
    \A c \in Callers :
        pc[c] \in {"dt_guard", "dt_shutdown", "dt_destroyed"}
           => /\ pc[Worker] = "w_none"
              /\ pc[FuncWorker] = "f_none"


\* ------------------------------------------- frames sent after a stop call
\* stopExecution() is one atomic store (line 40) made by another thread; the
\* thread inside execute() reads the flag at lines 45, 67, 213 and 226 and
\* acts on what it read.  A store that lands between a read and the statement
\* guarded by it lets that one statement run: stop_call is the call, the step
\* of execute() under way at that moment may complete, and stopExecution is
\* the flag as every later read finds it.
AbortFrames ==
    LiveFrames
    \cup {[CanID |-> "response_id", pci_type |-> "FC",
           status |-> "CONTINUE_TO_SEND", block_size |-> 1,
           separation_time |-> 5]}

InitAbort ==
    /\ InitCommon
    /\ tester_present_interval_ms = 0
    /\ \E n \in {2, 20} :
          TxConstructed(CHOOSE cfg \in TpConfigs : cfg.max_nrc78_count = 2,
                        [i \in 1..n |-> i])
    /\ svc_m_context = m_context

\* Another thread calls stopExecution() (line 39), before execute() or during
\* it.
stop_call ==
    /\ ~stopCalled.called
    /\ ~aborted
    /\ at # "done"
    /\ stopCalled' = [called |-> TRUE, sent |-> Len(sent), at |-> at,
                     seen |-> txVars]
    /\ UNCHANGED <<svcVars, txVars, ptrVars, funcVars, stopVars, secVars,
                   svc_m_context, fifoVars, secCfgVars, funcTxVars>>

\* The step of execute() that was under way at the call has completed.
StepSinceStopCall == stopCalled.called /\ stopCalled.seen # txVars

\* Line 40: the store, found by every read of the flag that follows.
stop_store ==
    /\ stopCalled.called
    /\ stopExecution

\* Once the call was made, only the step of execute() under way runs on a
\* flag read before the store.
FlagReadInTime == aborted \/ ~StepSinceStopCall

NextAbort ==
    \/ stop_call
    \/ stop_store
    \/ FlagReadInTime /\ execute_begin
    \/ FlagReadInTime /\ execute_abort
    \/ FlagReadInTime /\ handle_start
    \/ \E ok \in BOOLEAN : FlagReadInTime /\ handle_send_single_frame(ok)
    \/ \E ok \in BOOLEAN : FlagReadInTime /\ handle_send_first_frame(ok)
    \/ FlagReadInTime /\ waitForFrame_call
    \/ FlagReadInTime /\ waitForFrame_poll
    \/ FlagReadInTime /\ provider_timeout
    \/ \E f \in AbortFrames : FlagReadInTime /\ provider_frame(f, chunk)
    \/ FlagReadInTime /\ handle_wait_for_fc
    \/ FlagReadInTime /\ handle_send_consecutive_frames
    \/ \E ok \in BOOLEAN : FlagReadInTime /\ send_consecutive_turn(ok)
    \/ \E ok \in BOOLEAN : FlagReadInTime /\ send_consecutive_paced(ok)
    \/ \E ok \in BOOLEAN : FlagReadInTime /\ handle_wait_for_response(ok)
    \/ FlagReadInTime /\ handle_receive_consecutive_frames

SpecAbort == InitAbort /\ [][NextAbort]_vars

\* C39: once stopExecution() has been called, execute() hands at most one
\* more frame to the sender before it returns; when the call came before
\* execute() started, no frame is sent at all and execute() returns FAILED
\* with Aborted.
C39_AtMostOneFrameAfterStop ==
    stopCalled.called =>
       /\ Len(sent) <= stopCalled.sent + 1
       /\ stopCalled.at = "new" =>
             /\ sent = <<>>
             /\ at = "done" =>
                   /\ m_state = "FAILED"
                   /\ ~m_result.success
                   /\ m_result.result_code = "Aborted"

\* execute() returned Aborted after a stop call that one more frame followed.
C39_Witness ==
    /\ stopCalled.called
    /\ Len(sent) = stopCalled.sent + 1
    /\ at = "done"
    /\ m_result.result_code = "Aborted"

\* execute() returned Aborted, with nothing sent, after a stop call made
\* before it started.
C39_WitnessBeforeStart ==
    /\ stopCalled.called
    /\ stopCalled.at = "new"
    /\ at = "done"
    /\ sent = <<>>
    /\ m_result.result_code = "Aborted"


\* --------------------------------- the security access sequence on the bus
\* The thread inside security_access, next to a second caller of request_sync
\* and the keep-alive thread.  Each requestSync of the sequence is one
\* executeTransaction (vci_uds_service.cpp lines 392-420): it stamps the
\* transmit time (393) and runs its Transaction under m_transaction_mutex
\* (408-411), which it takes when it is free and has released when it returns.
SeqThread == "c1"
OtherCaller == "c2"
SeqLevels == {1}
SeqCodes == {Ok, "TimeoutA"}
SeqPayloads == {<<SID_SECURITY_ACCESS_RESPONSE, 1, 1>>,
                <<SID_SECURITY_ACCESS_RESPONSE, 1>>}

\* Everything around one requestSync of the sequence.
seqFrame == <<txVars, ptrVars, funcVars, stopVars, svc_m_context, fifoVars,
              secCfgVars, funcTxVars, stopCalled, thrVars, objVars, queueVars,
              flagVars, m_transaction_mutex, nextId, ub>>

SeqRequestSync ==
    /\ ~crashed
    /\ m_transaction_mutex = NoThread
    /\ updateLastTxTime
    /\ UNCHANGED seqFrame

\* Line 172: ret = requestSync(seed_request_payload, seed_response_payload).
SeqRequestSeed(code, payload) ==
    /\ requestSeedReturns(code, payload)
    /\ SeqRequestSync

\* Line 203: ret = requestSync(key_request_payload, final_response).
SeqSendKey(code, payload) ==
    /\ sendKeyReturns(code, payload)
    /\ SeqRequestSync

NextSeq ==
    \/ \E level \in SeqLevels, providerBuilt \in BOOLEAN :
          securityAccess(level, providerBuilt)
    \/ \E code \in SeqCodes, payload \in SeqPayloads :
          SeqRequestSeed(code, payload)
    \/ \E code \in SeqCodes, k \in Keys : calculateKey(code, k)
    \/ \E code \in SeqCodes, payload \in SeqPayloads : SeqSendKey(code, payload)
    \/ securityAccessReturns
    \/ RequestSync(OtherCaller)
    \/ ExCreate(OtherCaller)
    \/ ExLock(OtherCaller)
    \/ ExRun(OtherCaller)
    \/ ExReset(OtherCaller)
    \/ StartKeepAlive(OtherCaller)
    \/ KeepAliveLoop
    \/ KeepAliveLock
    \/ KeepAliveSend
    \/ Tick

\* A caller of security_access, a caller of request_sync, the keep-alive
\* thread and the passing of time.
SpecSeq == InitKa /\ [][NextSeq]_vars

\* The seed request of the sequence has returned a seed and its send-key
\* request has not been made yet.
BetweenSeedAndKey == sa_pc \in {"sa_calc", "sa_key"}

\* Another thread hands a frame of a physical transaction to the sender.
OtherTransactionSendsFrame ==
    \E t \in ExecThreads \ {SeqThread} : sentFrames'[t] > sentFrames[t]

\* C40: between the seed request and the send-key request of one
\* security_access call, no frame of another physical transaction and no
\* Tester-Present frame is sent: the two requests follow each other on the
\* bus.
C40_SeedAndKeyConsecutive ==
    [][BetweenSeedAndKey =>
          ~(OtherTransactionSendsFrame \/ KeepAliveSendsFrame)]_vars

====
